---- MODULE Spec2Model ----
(***************************************************************************)
(* Basement Renovator: the room editor's placement stacks, door blocking   *)
(* counts and room geometry, modelled from src/BasementRenovator.py.       *)
(***************************************************************************)
EXTENDS Integers, Sequences, FiniteSets, Bags, TLC

(***************************************************************************)
(* Room.Info.Shapes.  A wall is <<min, max, level, dir>>, a door <<x, y>>. *)
(* TopLeft = -1 and BaseShape / MirrorX / MirrorY = 0 stand for an absent  *)
(* key.                                                                    *)
(***************************************************************************)
Shape1 ==
    [ Doors |-> <<<<7, 0>>, <<0, 4>>, <<14, 4>>, <<7, 8>>>>,
      WallsX |-> <<<<0, 14, 0, 1>>, <<0, 14, 8, -1>>>>,
      WallsY |-> <<<<0, 8, 0, 1>>, <<0, 8, 14, -1>>>>,
      Dims |-> <<15, 9>>,
      TopLeft |-> -1,
      BaseShape |-> 0,
      MirrorX |-> 0,
      MirrorY |-> 0 ]

Shape2 ==
    [ Doors |-> <<<<0, 4>>, <<14, 4>>>>,
      WallsX |-> <<<<0, 14, 2, 1>>, <<0, 14, 6, -1>>>>,
      WallsY |-> <<<<2, 6, 0, 1>>, <<2, 6, 14, -1>>>>,
      Dims |-> <<15, 5>>,
      TopLeft |-> 30,
      BaseShape |-> 1,
      MirrorX |-> 0,
      MirrorY |-> 0 ]

Shape3 ==
    [ Doors |-> <<<<7, 0>>, <<7, 8>>>>,
      WallsX |-> <<<<4, 10, 0, 1>>, <<4, 10, 8, -1>>>>,
      WallsY |-> <<<<0, 8, 4, 1>>, <<0, 8, 10, -1>>>>,
      Dims |-> <<7, 9>>,
      TopLeft |-> 4,
      BaseShape |-> 1,
      MirrorX |-> 0,
      MirrorY |-> 0 ]

Shape4 ==
    [ Doors |-> <<<<7, 0>>, <<14, 4>>, <<0, 4>>, <<14, 11>>, <<0, 11>>, <<7, 15>>>>,
      WallsX |-> <<<<0, 14, 0, 1>>, <<0, 14, 15, -1>>>>,
      WallsY |-> <<<<0, 15, 0, 1>>, <<0, 15, 14, -1>>>>,
      Dims |-> <<15, 16>>,
      TopLeft |-> -1,
      BaseShape |-> 0,
      MirrorX |-> 0,
      MirrorY |-> 0 ]

Shape5 ==
    [ Doors |-> <<<<7, 0>>, <<7, 15>>>>,
      WallsX |-> <<<<4, 10, 0, 1>>, <<4, 10, 15, -1>>>>,
      WallsY |-> <<<<0, 15, 4, 1>>, <<0, 15, 10, -1>>>>,
      Dims |-> <<7, 16>>,
      TopLeft |-> 4,
      BaseShape |-> 4,
      MirrorX |-> 0,
      MirrorY |-> 0 ]

Shape6 ==
    [ Doors |-> <<<<7, 0>>, <<0, 4>>, <<7, 8>>, <<20, 8>>, <<27, 4>>, <<20, 0>>>>,
      WallsX |-> <<<<0, 27, 0, 1>>, <<0, 27, 8, -1>>>>,
      WallsY |-> <<<<0, 8, 0, 1>>, <<0, 8, 27, -1>>>>,
      Dims |-> <<28, 9>>,
      TopLeft |-> -1,
      BaseShape |-> 0,
      MirrorX |-> 0,
      MirrorY |-> 0 ]

Shape7 ==
    [ Doors |-> <<<<0, 4>>, <<27, 4>>>>,
      WallsX |-> <<<<0, 27, 2, 1>>, <<0, 27, 6, -1>>>>,
      WallsY |-> <<<<2, 6, 0, 1>>, <<2, 6, 27, -1>>>>,
      Dims |-> <<28, 5>>,
      TopLeft |-> 56,
      BaseShape |-> 6,
      MirrorX |-> 0,
      MirrorY |-> 0 ]

Shape8 ==
    [ Doors |-> <<<<7, 0>>, <<0, 4>>, <<0, 11>>, <<20, 0>>, <<7, 15>>, <<20, 15>>, <<27, 4>>, <<27, 11>>>>,
      WallsX |-> <<<<0, 27, 0, 1>>, <<0, 27, 15, -1>>>>,
      WallsY |-> <<<<0, 15, 0, 1>>, <<0, 15, 27, -1>>>>,
      Dims |-> <<28, 16>>,
      TopLeft |-> -1,
      BaseShape |-> 0,
      MirrorX |-> 0,
      MirrorY |-> 0 ]

Shape9 ==
    [ Doors |-> <<<<20, 0>>, <<27, 4>>, <<7, 15>>, <<20, 15>>, <<13, 4>>, <<0, 11>>, <<27, 11>>, <<7, 7>>>>,
      WallsX |-> <<<<0, 13, 7, 1>>, <<13, 27, 0, 1>>, <<0, 27, 15, -1>>>>,
      WallsY |-> <<<<7, 15, 0, 1>>, <<0, 7, 13, 1>>, <<0, 15, 27, -1>>>>,
      Dims |-> <<28, 16>>,
      TopLeft |-> -1,
      BaseShape |-> 8,
      MirrorX |-> 10,
      MirrorY |-> 11 ]

Shape10 ==
    [ Doors |-> <<<<0, 4>>, <<14, 4>>, <<7, 0>>, <<20, 7>>, <<7, 15>>, <<20, 15>>, <<0, 11>>, <<27, 11>>>>,
      WallsX |-> <<<<0, 14, 0, 1>>, <<14, 27, 7, 1>>, <<0, 27, 15, -1>>>>,
      WallsY |-> <<<<0, 15, 0, 1>>, <<0, 7, 14, -1>>, <<7, 15, 27, -1>>>>,
      Dims |-> <<28, 16>>,
      TopLeft |-> -1,
      BaseShape |-> 8,
      MirrorX |-> 9,
      MirrorY |-> 12 ]

Shape11 ==
    [ Doors |-> <<<<0, 4>>, <<7, 8>>, <<7, 0>>, <<13, 11>>, <<20, 0>>, <<27, 4>>, <<20, 15>>, <<27, 11>>>>,
      WallsX |-> <<<<0, 27, 0, 1>>, <<0, 13, 8, -1>>, <<13, 27, 15, -1>>>>,
      WallsY |-> <<<<0, 8, 0, 1>>, <<8, 15, 13, 1>>, <<0, 15, 27, -1>>>>,
      Dims |-> <<28, 16>>,
      TopLeft |-> -1,
      BaseShape |-> 8,
      MirrorX |-> 12,
      MirrorY |-> 9 ]

Shape12 ==
    [ Doors |-> <<<<0, 4>>, <<7, 0>>, <<20, 0>>, <<14, 11>>, <<27, 4>>, <<7, 15>>, <<0, 11>>, <<20, 8>>>>,
      WallsX |-> <<<<0, 27, 0, 1>>, <<14, 27, 8, -1>>, <<0, 14, 15, -1>>>>,
      WallsY |-> <<<<0, 15, 0, 1>>, <<8, 15, 14, -1>>, <<0, 8, 27, -1>>>>,
      Dims |-> <<28, 16>>,
      TopLeft |-> -1,
      BaseShape |-> 8,
      MirrorX |-> 11,
      MirrorY |-> 10 ]

Shapes ==
    << Shape1, Shape2, Shape3, Shape4, Shape5, Shape6,
       Shape7, Shape8, Shape9, Shape10, Shape11, Shape12 >>

(***************************************************************************)
(* Bounds of the model.                                                    *)
(***************************************************************************)
MaxEnts == 2            \* placements in the room (main specification)
MaxClip == 1            \* items a copy puts on the clipboard
MaxDrift == 1           \* how far a blockingCount may leave 0..MaxEnts
MaxStackEnts == 26      \* placements in the room (stack specification)
MaxGridWidth == 28      \* widths of the grids given to gridIndex
MaxGridRow == 15        \* rows of the cells given to gridIndex
MaxSnapDist == 1        \* the dist argument of snapToBounds is 1..MaxSnapDist

\* Grid cells requested by mouse events, before clamping and snapping.
ReqCells == { <<7, -1>>, <<7, 1>> }
StackCells == { <<7, -1>>, <<7, 1>> }
\* the cells clicked in the neighbour specification
AdjCells == { <<0, 0>>, <<0, 4>>, <<1, 4>>, <<13, 4>>, <<14, 3>>, <<14, 4>>, <<14, 8>> }
\* the doors that are double-clicked: the door cell (7, 1) blocks
ToggleDoors == { 1 }

\* Entity kinds of the entity registry (EntitiesXML): the attributes the
\* editor reads from an entry.
Rock == [Type |-> 1000, isGridEnt |-> TRUE, blocksDoor |-> TRUE]
Pickup == [Type |-> 5, isGridEnt |-> FALSE, blocksDoor |-> FALSE]
Kinds == { Rock, Pickup }

MAX_STACK_DEPTH == 25
RoomShape == 1

(***************************************************************************)
(* Room.Info: geometry of one shape.                                       *)
(***************************************************************************)

\* faulty: the row is not scaled by the width
gridIndex_Unscaled(x, y, w) == y + w * x

gridIndex(x, y, w) == y * w + x

\* Room._SpawnIter.__next__: the cell of list index idx in a grid of the
\* given width, x = int(idx % width), y = int(idx / width).  The float
\* quotient of two non-negative integers below 2^53 truncates to the
\* integer quotient.
spawnCell(idx, width) == << idx % width, idx \div width >>

\* faulty: the Y loop repeats the test of the X loop without swapping the
\* door's coordinates
DoorWallsFor_SameTest(sh, door) ==
    LET onX(w) == door[1] >= w[1] /\ door[1] <= w[2] /\ door[2] = w[3]
        xs == SelectSeq(sh.WallsX, onX)
        ys == SelectSeq(sh.WallsY, onX)
    IN  (IF xs = <<>> THEN <<>> ELSE << <<door, Head(xs), "X">> >>)
        \o [i \in 1..Len(ys) |-> <<door, ys[i], "Y">>]

\* class-body loop building shape["DoorWalls"]: per door, the first X wall
\* it lies on (break), then every Y wall it lies on (no break)
DoorWallsFor(sh, door) ==
    LET onX(w) == door[1] >= w[1] /\ door[1] <= w[2] /\ door[2] = w[3]
        onY(w) == door[2] >= w[1] /\ door[2] <= w[2] /\ door[1] = w[3]
        xs == SelectSeq(sh.WallsX, onX)
        ys == SelectSeq(sh.WallsY, onY)
    IN  (IF xs = <<>> THEN <<>> ELSE << <<door, Head(xs), "X">> >>)
        \o [i \in 1..Len(ys) |-> <<door, ys[i], "Y">>]

RECURSIVE DoorWallsFrom(_, _)
DoorWallsFrom(sh, i) ==
    IF i > Len(sh.Doors) THEN <<>>
    ELSE DoorWallsFor(sh, sh.Doors[i]) \o DoorWallsFrom(sh, i + 1)

DoorWalls(sh) == DoorWallsFrom(sh, 1)

\* the shape of the room, with the DoorWalls entry the class body adds to
\* every shape
shapeData ==
    LET sh == Shapes[RoomShape]
    IN  [f \in DOMAIN sh \cup {"DoorWalls"} |->
            IF f = "DoorWalls" THEN DoorWalls(sh) ELSE sh[f]]

\* Room.Info.dims: the base shape's dimensions when there is one
dims(sh) == IF sh.BaseShape # 0 THEN Shapes[sh.BaseShape].Dims ELSE sh.Dims

roomWidth == dims(shapeData)[1]
roomHeight == dims(shapeData)[2]

NoDoor == <<>>

\* faulty: the step is taken from the cell towards the door
inFrontOfDoor_Outwards(sh, x, y) ==
    LET hit(t) == \/ (t[3] = "X" /\ t[1][1] = x /\ t[1][2] - y = t[2][4])
                  \/ (t[3] = "Y" /\ t[1][2] = y /\ t[1][1] - x = t[2][4])
        m == SelectSeq(sh.DoorWalls, hit)
    IN  IF m = <<>> THEN <<>> ELSE Head(m)[1]

inFrontOfDoor(sh, x, y) ==
    LET hit(t) == \/ (t[3] = "X" /\ t[1][1] = x /\ y - t[1][2] = t[2][4])
                  \/ (t[3] = "Y" /\ t[1][2] = y /\ x - t[1][1] = t[2][4])
        m == SelectSeq(sh.DoorWalls, hit)
    IN  IF m = <<>> THEN NoDoor ELSE Head(m)[1]

sign(n) == IF n > 0 THEN 1 ELSE IF n < 0 THEN -1 ELSE 0

\* faulty: a point on the wall's level counts as inside
axisBounds_OnWall(a, c, w) ==
    a < w[1] \/ a > w[2] \/ sign(c - w[3]) = w[4] \/ c = w[3]

\* Room.Info._axisBounds(a, c, w)
axisBounds(a, c, w) == a < w[1] \/ a > w[2] \/ sign(c - w[3]) = w[4]

isInBounds(sh, x, y) ==
    /\ \A i \in 1..Len(sh.WallsX) : axisBounds(x, y, sh.WallsX[i])
    /\ \A i \in 1..Len(sh.WallsY) : axisBounds(y, x, sh.WallsY[i])

\* the two loops of snapToBounds: each test reads the coordinates as the
\* earlier iterations left them
RECURSIVE snapY(_, _, _, _, _)
snapY(ws, i, x, y, dist) ==
    IF i > Len(ws) THEN y
    ELSE snapY(ws, i + 1, x,
               IF ~axisBounds(x, y, ws[i]) THEN ws[i][3] + ws[i][4] * dist ELSE y,
               dist)

RECURSIVE snapX(_, _, _, _, _)
snapX(ws, i, x, y, dist) ==
    IF i > Len(ws) THEN x
    ELSE snapX(ws, i + 1,
               IF ~axisBounds(y, x, ws[i]) THEN ws[i][3] + ws[i][4] * dist ELSE x,
               y, dist)

\* faulty: every wall is tested against the point the caller passed
snapToBounds_InputPoint(sh, x, y, dist) ==
    LET hitX == {i \in 1..Len(sh.WallsX) : ~axisBounds(x, y, sh.WallsX[i])}
        hitY == {i \in 1..Len(sh.WallsY) : ~axisBounds(y, x, sh.WallsY[i])}
        lastX == CHOOSE i \in hitX : \A j \in hitX : j <= i
        lastY == CHOOSE i \in hitY : \A j \in hitY : j <= i
    IN  << IF hitY = {} THEN x
           ELSE sh.WallsY[lastY][3] + sh.WallsY[lastY][4] * dist,
           IF hitX = {} THEN y
           ELSE sh.WallsX[lastX][3] + sh.WallsX[lastX][4] * dist >>

snapToBounds(sh, x, y, dist) ==
    LET ny == snapY(sh.WallsX, 1, x, y, dist)
    IN  << snapX(sh.WallsY, 1, x, ny, dist), ny >>

\* faulty: no upper limit
clamp_LowerOnly(v, lo, hi) == IF v > lo THEN v ELSE lo

\* min(max(v, lo), hi)
clamp(v, lo, hi) ==
    LET m == IF v > lo THEN v ELSE lo
    IN  IF m < hi THEN m ELSE hi

(***************************************************************************)
(* State.                                                                  *)
(*   ents      the Entity items of the scene, a bag of records             *)
(*             [x, y, z, kind, stackDepth]: entity.x, entity.y, zValue(),  *)
(*             the registry entry of entity.Type/Variant/Subtype and the   *)
(*             cached stackDepth.  Items with equal fields are             *)
(*             interchangeable, hence a bag.                               *)
(*   doors     the Door items of the scene in room.info.doors order:       *)
(*             [x, y, exists, blockingCount]                               *)
(*   clipboard MainWindow.clipboard, a sequence of [x, y, kind]            *)
(*   shapeDoors the third element of the door lists of the catalog entry   *)
(*             Room.Info.Shapes[RoomShape]["Doors"]                        *)
(*   probe     the last call of a pure function with its result, for the   *)
(*             specification of the pure functions                         *)
(***************************************************************************)
VARIABLES ents, doors, clipboard, shapeDoors, probe

vars == << ents, doors, clipboard, shapeDoors, probe >>

One(e) == SetToBag({e})

RECURSIVE SumOver(_, _)
SumOver(B, S) ==
    IF S = {} THEN 0
    ELSE LET e == CHOOSE v \in S : TRUE
         IN  B[e] + SumOver(B, S \ {e})

\* the bag of F(e) for the items e of B
MapBag(B, F(_)) ==
    LET S == BagToSet(B)
    IN  [r \in {F(e) : e \in S} |-> SumOver(B, {e \in S : F(e) = r})]

\* the items of B in grid cell (x, y)
EntsAt(B, x, y) ==
    [e \in {d \in BagToSet(B) : d.x = x /\ d.y = y} |-> B[e]]

CountAt(B, x, y) == BagCardinality(EntsAt(B, x, y))

\* the z values of the items in cell (x, y), as a bag
DepthsAt(B, x, y) ==
    LET zOf(e) == e.z
    IN  MapBag(EntsAt(B, x, y), zOf)

(***************************************************************************)
(* Entity.updateBlockedDoor(val, countOnly) for an entity at (x, y) whose  *)
(* registry entry has blocksDoor = blocks; D is the door list.             *)
(***************************************************************************)

\* the loop over roomDoorRoot.childItems(): the index of the first door
\* item at the position of blockedDoor, 0 when there is none
matchingDoor(D, blockedDoor) ==
    LET hits == {i \in 1..Len(D) :
                    blockedDoor # NoDoor
                    /\ D[i].x = blockedDoor[1] /\ D[i].y = blockedDoor[2]}
    IN  IF hits = {} THEN 0 ELSE CHOOSE j \in hits : \A k \in hits : j <= k

\* faulty: every update is treated as count-only, no door is ever closed
blockDoor_NeverCloses(door, cnt, countOnly) ==
    [door EXCEPT !.blockingCount = cnt]

\* faulty: the test that the door is open is dropped, so a closed door that
\* follows the rule is opened when its count returns to 0
blockDoor_Reopens(door, cnt, countOnly) ==
    LET doorFollowsBlockRule == (door.blockingCount = 0) = door.exists
    IN  [door EXCEPT !.blockingCount = cnt,
                     !.exists = IF doorFollowsBlockRule /\ ~countOnly
                                THEN cnt = 0 ELSE @]

\* faulty: countOnly is not looked at
blockDoor_AlwaysCloses(door, cnt, countOnly) ==
    LET doorFollowsBlockRule == (door.blockingCount = 0) = door.exists
    IN  [door EXCEPT !.blockingCount = cnt,
                     !.exists = IF doorFollowsBlockRule /\ door.exists
                                THEN cnt = 0 ELSE @]

\* lines 1485-1490 for the matching door, cnt being its new blockingCount
blockDoor(door, cnt, countOnly) ==
    LET doorFollowsBlockRule == (door.blockingCount = 0) = door.exists
    IN  [door EXCEPT !.blockingCount = cnt,
                     !.exists = IF doorFollowsBlockRule /\ door.exists /\ ~countOnly
                                THEN cnt = 0 ELSE @]

updateDoorAt(D, i, val, countOnly) ==
    IF i = 0 THEN D
    ELSE [D EXCEPT ![i] = blockDoor(@, @.blockingCount + (IF val THEN -1 ELSE 1),
                                    countOnly)]

updateBlockedDoor(D, x, y, blocks, val, countOnly) ==
    IF ~blocks THEN D
    ELSE updateDoorAt(D, matchingDoor(D, inFrontOfDoor(shapeData, x, y)),
                      val, countOnly)

(***************************************************************************)
(* Faulty variants of updateCoords.                                        *)
(*   KeepGap: the loop over the cell the item leaves is missing.           *)
(*   ShiftAlways: an explicit depth restacks even when the item already    *)
(*   has that depth.                                                       *)
(***************************************************************************)
updateCoords_KeepGap(self, others, D, x, y, depth) ==
    LET z == self.z
        moving == self.x # x \/ self.y # y
        restack == (depth < 0 /\ moving) \/ depth # z
        topOfStack == depth < 0
        d == IF depth < 0 THEN CountAt(others, x, y) ELSE depth
        up(e) == IF ~topOfStack /\ e.x = x /\ e.y = y /\ e.z >= d
                 THEN [e EXCEPT !.z = @ + 1] ELSE e
        D1 == IF moving
              THEN updateBlockedDoor(D, self.x, self.y, self.kind.blocksDoor,
                                     TRUE, FALSE)
              ELSE D
        D2 == IF moving
              THEN updateBlockedDoor(D1, x, y, self.kind.blocksDoor,
                                     FALSE, FALSE)
              ELSE D1
    IN  [self |-> [self EXCEPT !.x = x, !.y = y,
                               !.z = IF restack THEN d ELSE z],
         others |-> IF restack THEN MapBag(others, up) ELSE others,
         doors |-> D2]

updateCoords_ShiftAlways(self, others, D, x, y, depth) ==
    LET z == self.z
        moving == self.x # x \/ self.y # y
        restack == (depth < 0 /\ moving) \/ depth # z \/ depth >= 0
        topOfStack == depth < 0
        d == IF depth < 0 THEN CountAt(others, x, y) ELSE depth
        up(e) == IF ~topOfStack /\ e.x = x /\ e.y = y /\ e.z >= d
                 THEN [e EXCEPT !.z = @ + 1] ELSE e
        down(e) == IF moving /\ e.x = self.x /\ e.y = self.y /\ e.z > z
                   THEN [e EXCEPT !.z = @ - 1] ELSE e
        shifted(e) == down(up(e))
        D1 == IF moving
              THEN updateBlockedDoor(D, self.x, self.y, self.kind.blocksDoor,
                                     TRUE, FALSE)
              ELSE D
        D2 == IF moving
              THEN updateBlockedDoor(D1, x, y, self.kind.blocksDoor,
                                     FALSE, FALSE)
              ELSE D1
    IN  [self |-> [self EXCEPT !.x = x, !.y = y,
                               !.z = IF restack THEN d ELSE z],
         others |-> IF restack THEN MapBag(others, shifted) ELSE others,
         doors |-> D2]

(***************************************************************************)
(* Entity.updateCoords(x, y, depth) for an item that already has a parent  *)
(* row (lines 1444-1475).  others is the scene without the item.           *)
(***************************************************************************)
updateCoords(self, others, D, x, y, depth) ==
    LET z == self.z
        moving == self.x # x \/ self.y # y
        restack == (depth < 0 /\ moving) \/ depth # z
        topOfStack == depth < 0
        d == IF depth < 0 THEN CountAt(others, x, y) ELSE depth
        up(e) == IF ~topOfStack /\ e.x = x /\ e.y = y /\ e.z >= d
                 THEN [e EXCEPT !.z = @ + 1] ELSE e
        down(e) == IF moving /\ e.x = self.x /\ e.y = self.y /\ e.z > z
                   THEN [e EXCEPT !.z = @ - 1] ELSE e
        shifted(e) == down(up(e))
        D1 == IF moving
              THEN updateBlockedDoor(D, self.x, self.y, self.kind.blocksDoor,
                                     TRUE, FALSE)
              ELSE D
        D2 == IF moving
              THEN updateBlockedDoor(D1, x, y, self.kind.blocksDoor,
                                     FALSE, FALSE)
              ELSE D1
    IN  [self |-> [self EXCEPT !.x = x, !.y = y,
                               !.z = IF restack THEN d ELSE z],
         others |-> IF restack THEN MapBag(others, shifted) ELSE others,
         doors |-> D2]

(***************************************************************************)
(* Entity.__init__: updateCoords takes its adding branch (parent row set,  *)
(* door count updated, no z assigned: zValue() keeps Qt's default 0), then *)
(* updatePosition() calls setPos, which Qt reports through itemChange      *)
(* before the item has moved from its initial position (0, 0): getStack    *)
(* counts the items colliding there.  setPos to (0, 0) itself is no change *)
(* and is not reported, so stackDepth keeps its initial 1.                 *)
(***************************************************************************)
NewEntity(E, D, x, y, kind, respawning) ==
    [self |-> [x |-> x, y |-> y, z |-> 0, kind |-> kind,
               stackDepth |-> IF x = 0 /\ y = 0 THEN 1
                              ELSE CountAt(E, 0, 0) + 1],
     doors |-> updateBlockedDoor(D, x, y, kind.blocksDoor, FALSE, respawning)]

\* blockingCount stays within the model's window
CountsInWindow(D) ==
    \A i \in 1..Len(D) :
        /\ D[i].blockingCount >= 0 - MaxDrift
        /\ D[i].blockingCount <= MaxEnts + MaxDrift

\* the class-body loop appends True to every door list of the catalog
catalogDoors(sh) == [i \in 1..Len(sh.Doors) |-> TRUE]

\* door[:] copies each catalog list [x, y, exists]; the Door items start
\* with blockingCount 0
makeNewDoors(sh, flags) ==
    [i \in 1..Len(sh.Doors) |->
        [x |-> sh.Doors[i][1], y |-> sh.Doors[i][2],
         exists |-> flags[i], blockingCount |-> 0]]

NoProbe == [op |-> "none"]

Init ==
    /\ ents = EmptyBag
    /\ shapeDoors = catalogDoors(shapeData)
    /\ doors = makeNewDoors(shapeData, shapeDoors)
    /\ clipboard = << >>
    /\ probe = NoProbe

(***************************************************************************)
(* Operations.  The SnapToBounds setting is an input of the two handlers   *)
(* that read it: the user may switch it between any two events.            *)
(***************************************************************************)

\* the cell tryToPaint paints for a click on grid cell (rx, ry)
PaintCell(rx, ry, snap) ==
    LET cx == clamp(rx, 0, roomWidth - 1)
        cy == clamp(ry, 0, roomHeight - 1)
    IN  IF snap THEN snapToBounds(shapeData, cx, cy, 1) ELSE << cx, cy >>

\* tryToPaint returns before creating an Entity
PaintRejected(E, x, y, kind) ==
    \E i \in BagToSet(EntsAt(E, x, y)) :
        \/ i.stackDepth = MAX_STACK_DEPTH
        \/ (i.kind.Type > 999 /\ kind.Type > 999)

\* the scene and doors after tryToPaint creates the Entity at (x, y)
PaintResult(E, D, x, y, kind) ==
    LET n == NewEntity(E, D, x, y, kind, FALSE)
        u == IF kind.isGridEnt
             THEN updateCoords(n.self, E, n.doors, x, y, 0)
             ELSE [self |-> n.self, others |-> E, doors |-> n.doors]
    IN  [ents |-> u.others (+) One(u.self), doors |-> u.doors]

\* RoomEditorWidget.mousePressEvent with the right button: lastTile is
\* reset to the empty set and tryToPaint runs for the clicked cell
PaintBounded(rx, ry, kind, snap, cap) ==
    LET p == PaintCell(rx, ry, snap)
        r == PaintResult(ents, doors, p[1], p[2], kind)
    IN  /\ BagCardinality(ents) < cap
        /\ IF PaintRejected(ents, p[1], p[2], kind)
           THEN UNCHANGED << ents, doors >>
           ELSE /\ ents' = r.ents
                /\ doors' = r.doors
                /\ CountsInWindow(doors')
        /\ UNCHANGED << clipboard, shapeDoors, probe >>

Paint(rx, ry, kind, snap) == PaintBounded(rx, ry, kind, snap, MaxEnts)

\* Entity.itemChange(ItemPositionChange), lines 1676-1699: the grid cell a
\* drag of item e to (rx, ry) gives to updateCoords; the cell of e itself
\* when the clamped cell is the one e is in
MoveCell(e, rx, ry, snap) ==
    LET cx == clamp(rx, 0, roomWidth - 1)
        cy == clamp(ry, 0, roomHeight - 1)
        changed == cx # e.x \/ cy # e.y
    IN  IF changed /\ snap THEN snapToBounds(shapeData, cx, cy, 1)
        ELSE << cx, cy >>

\* Entity.itemChange(ItemPositionChange) for a drag of item e to grid cell
\* (rx, ry).  getStack runs before Qt applies the new position, so it
\* counts the items of the cell the drag started from.
MoveResult(E, D, e, rx, ry, snap) ==
    LET others == E (-) One(e)
        cx == clamp(rx, 0, roomWidth - 1)
        cy == clamp(ry, 0, roomHeight - 1)
        changed == cx # e.x \/ cy # e.y
        p == MoveCell(e, rx, ry, snap)
        u == IF changed
             THEN updateCoords(e, others, D, p[1], p[2], -1)
             ELSE [self |-> e, others |-> others, doors |-> D]
        moved == [u.self EXCEPT !.stackDepth = CountAt(others, e.x, e.y) + 1]
    IN  [self |-> moved, ents |-> u.others (+) One(moved), doors |-> u.doors]

Move(e, rx, ry, snap) ==
    LET r == MoveResult(ents, doors, e, rx, ry, snap)
    IN  /\ ents' = r.ents
        /\ doors' = r.doors
        /\ CountsInWindow(doors')
        /\ UNCHANGED << clipboard, shapeDoors, probe >>

\* Entity.remove(), from the Delete key
RemoveResult(E, D, e) ==
    [ents |-> E (-) One(e),
     doors |-> updateBlockedDoor(D, e.x, e.y, e.kind.blocksDoor, TRUE, FALSE)]

Remove(e) ==
    LET r == RemoveResult(ents, doors, e)
    IN  /\ ents' = r.ents
        /\ doors' = r.doors
        /\ CountsInWindow(doors')
        /\ UNCHANGED << clipboard, shapeDoors, probe >>

\* Entity.hoverEnterEvent -> createWeightPopup -> getStack
Hover(e) ==
    /\ ents' = (ents (-) One(e))
               (+) One([e EXCEPT !.stackDepth = CountAt(ents, e.x, e.y)])
    /\ UNCHANGED << doors, clipboard, shapeDoors, probe >>

\* MainWindow.handleObjectReplaced -> Entity.setData for a selected item
SetDataResult(E, e, kind) == (E (-) One(e)) (+) One([e EXCEPT !.kind = kind])

SetData(e, kind) ==
    /\ ents' = SetDataResult(ents, e, kind)
    /\ UNCHANGED << doors, clipboard, shapeDoors, probe >>

\* faulty: the Door items hold the lists of the catalog itself
doorItem_Catalog(d) == [list |-> "Shapes", index |-> d]

\* Room.clearDoors: Door(door) for door in self.info.doors; the item of
\* door d holds the d-th list of room.info.doors
doorItem(d) == [list |-> "room.info.doors", index |-> d]

\* the exists property of a Door item: it reads and writes element 2 of
\* the list the item holds.  D is room.info.doors, S the catalog's flags.
getExists(D, S, ref) ==
    IF ref.list = "Shapes" THEN S[ref.index] ELSE D[ref.index].exists

setExists(D, S, ref, val) ==
    IF ref.list = "Shapes"
    THEN [doors |-> D, shapeDoors |-> [S EXCEPT ![ref.index] = val]]
    ELSE [doors |-> [D EXCEPT ![ref.index].exists = val], shapeDoors |-> S]

\* Door.mouseDoubleClickEvent: self.exists = not self.exists
mouseDoubleClickEvent(D, S, d) ==
    setExists(D, S, doorItem(d), ~getExists(D, S, doorItem(d)))

\* the door list after a double click on door d
ToggleResult(D, d) == mouseDoubleClickEvent(D, shapeDoors, d).doors

Toggle(d) ==
    LET r == mouseDoubleClickEvent(doors, shapeDoors, d)
    IN  /\ doors' = r.doors
        /\ shapeDoors' = r.shapeDoors
        /\ UNCHANGED << ents, clipboard, probe >>

RECURSIVE SeqToBag(_)
SeqToBag(s) == IF s = << >> THEN EmptyBag ELSE One(Head(s)) (+) SeqToBag(Tail(s))

\* MainWindow.copy: sel is scene.selectedItems()
Copy(sel) ==
    /\ clipboard' = [i \in 1..Len(sel) |->
                        [x |-> sel[i].x, y |-> sel[i].y, kind |-> sel[i].kind]]
    /\ UNCHANGED << ents, doors, shapeDoors, probe >>

\* MainWindow.cut: every selected item is put on the clipboard and removed
RECURSIVE CutFrom(_, _, _, _)
CutFrom(E, D, sel, i) ==
    IF i > Len(sel) THEN [ents |-> E, doors |-> D]
    ELSE LET r == RemoveResult(E, D, sel[i])
         IN  CutFrom(r.ents, r.doors, sel, i + 1)

Cut(sel) ==
    LET r == CutFrom(ents, doors, sel, 1)
    IN  /\ clipboard' = [i \in 1..Len(sel) |->
                            [x |-> sel[i].x, y |-> sel[i].y, kind |-> sel[i].kind]]
        /\ ents' = r.ents
        /\ doors' = r.doors
        /\ CountsInWindow(doors')
        /\ UNCHANGED << shapeDoors, probe >>

\* MainWindow.paste: Entity(*item) for every clipboard item, in order
RECURSIVE PasteFrom(_, _, _, _)
PasteFrom(E, D, clip, i) ==
    IF i > Len(clip) THEN [ents |-> E, doors |-> D]
    ELSE LET n == NewEntity(E, D, clip[i].x, clip[i].y, clip[i].kind, FALSE)
         IN  PasteFrom(E (+) One(n.self), n.doors, clip, i + 1)

Paste ==
    LET r == PasteFrom(ents, doors, clipboard, 1)
    IN  /\ clipboard # << >>
        /\ BagCardinality(ents) + Len(clipboard) <= MaxEnts
        /\ ents' = r.ents
        /\ doors' = r.doors
        /\ CountsInWindow(doors')
        /\ UNCHANGED << clipboard, shapeDoors, probe >>

Selections ==
    UNION { {s \in [1..n -> BagToSet(ents)] : SeqToBag(s) \sqsubseteq ents}
            : n \in 0..MaxClip }

DoPaint == \E c \in ReqCells, k \in Kinds, s \in BOOLEAN : Paint(c[1], c[2], k, s)
DoMove == \E e \in BagToSet(ents), c \in ReqCells, s \in BOOLEAN : Move(e, c[1], c[2], s)
DoRemove == \E e \in BagToSet(ents) : Remove(e)
DoHover == \E e \in BagToSet(ents) : Hover(e)
DoSetData == \E e \in BagToSet(ents), k \in Kinds : SetData(e, k)
DoToggle == \E d \in ToggleDoors : Toggle(d)
DoCopy == \E sel \in Selections : Copy(sel)
DoCut == \E sel \in Selections : Cut(sel)

Next ==
    \/ DoPaint
    \/ DoMove
    \/ DoRemove
    \/ DoHover
    \/ DoSetData
    \/ DoToggle

Spec == Init /\ [][Next]_vars

(***************************************************************************)
(* The clipboard specification: paint, copy, cut and paste.                 *)
(***************************************************************************)
NextClip ==
    \/ DoPaint
    \/ DoCopy
    \/ DoCut
    \/ Paste

SpecClip == Init /\ [][NextClip]_vars

(***************************************************************************)
(* The stack specification: right clicks only, up to MaxStackEnts items,   *)
(* so that a cell fills up to MAX_STACK_DEPTH.                             *)
(***************************************************************************)
StackPaint ==
    \E c \in StackCells : PaintBounded(c[1], c[2], Pickup, FALSE, MaxStackEnts)

NextStack == StackPaint

SpecStack == Init /\ [][NextStack]_vars

(***************************************************************************)
(* RoomScene.getAdjacentEnts: the neighbours of cell (x, y), a function    *)
(* from the spots 0..7 = [L, R, U, D, UL, DL, UR, DR] to bags of items.    *)
(***************************************************************************)
None == -1

\* the lookup table: row offset -> the spots of column offsets -1, 0, 1
lookup(i) ==
    CASE i = -1 -> << 4, 2, 6 >>
      [] i = 0 -> << 0, None, 1 >>
      [] i = 1 -> << 5, 3, 7 >>

Spots == 0..7

\* the (row offset, column offset) whose lookup entry is spot s
spotOffset(s) ==
    CHOOSE o \in (-1..1) \X (-1..1) : lookup(o[1])[o[2] + 2] = s

\* RoomScene.drawBackground: entCache[idx] after the rebuild, the items
\* whose cell has grid index idx
entCache(E, idx) ==
    [e \in {d \in BagToSet(E) : gridIndex(d.x, d.y, roomWidth) = idx} |-> E[e]]

\* the useCache branch: a spot keeps its empty list when the index of its
\* cell is outside 0 .. width*height - 1
getAdjacentEntsCached(E, x, y) ==
    [s \in Spots |->
        LET i == spotOffset(s)[1]
            j == spotOffset(s)[2]
            idx == gridIndex(x + j, y + i, roomWidth)
        IN  IF idx < 0 \/ idx >= roomWidth * roomHeight THEN EmptyBag
            ELSE entCache(E, idx)]

\* the scan of the rows y-1, y, y+1: the children of row yc are the items
\* with entity.y = yc
getAdjacentEntsScan(E, x, y) ==
    [s \in Spots |->
        LET yc == y + spotOffset(s)[1]
            col == spotOffset(s)[2] + 1
        IN  IF yc < 0 \/ yc >= roomHeight THEN EmptyBag
            ELSE [e \in {d \in BagToSet(E) : d.y = yc /\ (d.x - x) + 1 = col}
                    |-> E[e]]]

getAdjacentEnts(E, x, y, useCache) ==
    IF useCache THEN getAdjacentEntsCached(E, x, y)
    ELSE getAdjacentEntsScan(E, x, y)

(***************************************************************************)
(* The neighbour specification: right clicks, without snapping, on cells   *)
(* of the first and last columns and rows and next to them.                *)
(***************************************************************************)
AdjPaint ==
    \E c \in AdjCells, k \in Kinds : Paint(c[1], c[2], k, FALSE)

NextAdj == AdjPaint

SpecAdj == Init /\ [][NextAdj]_vars

(***************************************************************************)
(* The rock pass of RoomScene.drawBackground and Entity.setRockFrame.  The *)
(* pass works on entCache: per grid index the list of the cell's items,    *)
(* here records [x, y, img, renderRock, rockFrame].  Every paint of a rock *)
(* item clears its rockFrame after reading it, so a pass starts with every *)
(* rockFrame None.  The outputs of the seeded generator (random.randint,   *)
(* random.choice) are inputs of the pass.                                  *)
(***************************************************************************)
MaxRockEnts == 4
RockCells == { <<1, 1>>, <<2, 1>>, <<1, 2>> }
RockSeeds == { 0, 1 }

\* a kind whose configuration entry has both UseRockTiling and UsePitTiling
RockPit == [Type |-> 1001, isGridEnt |-> TRUE, blocksDoor |-> TRUE]

\* the Image, UseRockTiling and UsePitTiling attributes of the kind's
\* configuration entry: the kinds have different images
imgPath(kind) == kind.Type
renderRock(kind) == kind \in { Rock, RockPit }
renderPit(kind) == kind = RockPit

RECURSIVE BagToSeq(_)
BagToSeq(B) ==
    IF B = EmptyBag THEN << >>
    ELSE LET e == CHOOSE d \in BagToSet(B) : TRUE
         IN  << e >> \o BagToSeq(B (-) One(e))

\* the list of one cell after the rebuild
cacheStack(E, idx) ==
    LET s == BagToSeq(entCache(E, idx))
    IN  [k \in 1..Len(s) |->
            [x |-> s[k].x, y |-> s[k].y, img |-> imgPath(s[k].kind),
             renderRock |-> renderRock(s[k].kind),
             renderPit |-> renderPit(s[k].kind), rockFrame |-> None]]

\* entCache after the rebuild, as a function on the indices of the
\* non-empty lists: an index of the grid outside its domain has the empty list
rockCache(E) ==
    [idx \in {gridIndex(e.x, e.y, roomWidth) : e \in BagToSet(E)} |->
        cacheStack(E, idx)]

\* the index of the list getAdjacentEnts(x, y, useCache=True) returns for
\* spot s, None when the spot keeps its empty list
adjacentIndex(x, y, s) ==
    LET idx == gridIndex(x + spotOffset(s)[2], y + spotOffset(s)[1], roomWidth)
    IN  IF idx < 0 \/ idx >= roomWidth * roomHeight THEN None ELSE idx

adjacentStack(c, x, y, s) ==
    IF adjacentIndex(x, y, s) \in DOMAIN c THEN c[adjacentIndex(x, y, s)]
    ELSE << >>

\* findMatchInStack: the position of the first item of the list with the
\* image rockImg, 0 for None
findMatchInStack(stack, rockImg) ==
    LET M == {k \in 1..Len(stack) : stack[k].img = rockImg}
    IN  IF M = {} THEN 0 ELSE CHOOSE k \in M : \A j \in M : k <= j

\* faulty: a match counts whether or not it has a frame
freePartner_AnyMatch(stack, rockImg) ==
    findMatchInStack(stack, rockImg) # 0

\* "X is not None and X.entity.rockFrame is None" for the match in stack
freePartner(stack, rockImg) ==
    /\ findMatchInStack(stack, rockImg) # 0
    /\ stack[findMatchInStack(stack, rockImg)].rockFrame = None

\* the candidates list of setRockFrame for the item with image rockImg
rockCandidates(right, down, downRight, rockImg) ==
    LET two == (IF freePartner(right, rockImg) THEN << "2x1" >> ELSE << >>)
               \o (IF freePartner(down, rockImg) THEN << "1x2" >> ELSE << >>)
    IN  two \o (IF Len(two) = 2 /\ freePartner(downRight, rockImg)
                THEN << "2x2" >> ELSE << >>)

\* the match of the list of spot s, as << list index, position in the list >>
partnerAt(c, x, y, s, rockImg) ==
    << adjacentIndex(x, y, s),
       findMatchInStack(c[adjacentIndex(x, y, s)], rockImg) >>

\* X.entity.rockFrame = f for the match of the list of spot s
setPartnerFrame(c, x, y, s, rockImg, f) ==
    [c EXCEPT ![partnerAt(c, x, y, s, rockImg)[1]]
                 [partnerAt(c, x, y, s, rockImg)[2]].rockFrame = f]

\* the assignments of the chosen grouping for the item k of list i
applyChoice(c, i, k, choice) ==
    LET x == c[i][k].x
        y == c[i][k].y
        img == c[i][k].img
        self(f) == [c EXCEPT ![i][k].rockFrame = f]
    IN  CASE choice = "2x1" -> setPartnerFrame(self(3), x, y, 1, img, 4)
          [] choice = "1x2" -> setPartnerFrame(self(5), x, y, 3, img, 6)
          [] choice = "2x2" ->
                setPartnerFrame(
                    setPartnerFrame(
                        setPartnerFrame(self(7), x, y, 1, img, 8),
                        x, y, 3, img, 9),
                    x, y, 7, img, 10)

\* the candidates of item k of list i once its own frame is set
candidatesOf(c, i, k) ==
    rockCandidates(adjacentStack(c, c[i][k].x, c[i][k].y, 1),
                   adjacentStack(c, c[i][k].x, c[i][k].y, 3),
                   adjacentStack(c, c[i][k].x, c[i][k].y, 7),
                   c[i][k].img)

\* the grouping random.choice takes from the candidates, "none" when there
\* is no candidate; pick stands for random.choice
chosen(cands, pick) ==
    IF cands = << >> THEN "none"
    ELSE cands[((pick - 1) % Len(cands)) + 1]

\* the placements the chosen grouping assigns a frame to, as
\* << list index, position in the list, frame >>
chosenFrames(c, i, k, choice) ==
    CASE choice = "none" -> {}
      [] choice = "2x1" ->
            { << i, k, 3 >>,
              partnerAt(c, c[i][k].x, c[i][k].y, 1, c[i][k].img) \o << 4 >> }
      [] choice = "1x2" ->
            { << i, k, 5 >>,
              partnerAt(c, c[i][k].x, c[i][k].y, 3, c[i][k].img) \o << 6 >> }
      [] choice = "2x2" ->
            { << i, k, 7 >>,
              partnerAt(c, c[i][k].x, c[i][k].y, 1, c[i][k].img) \o << 8 >>,
              partnerAt(c, c[i][k].x, c[i][k].y, 3, c[i][k].img) \o << 9 >>,
              partnerAt(c, c[i][k].x, c[i][k].y, 7, c[i][k].img) \o << 10 >> }

\* what a call of setRockFrame for item k of list i saw and computed, and
\* the frames its pairing part assigned
rockCall(c, i, k, cands, choice) ==
    [x |-> c[i][k].x, y |-> c[i][k].y, rockImg |-> c[i][k].img,
     right |-> adjacentStack(c, c[i][k].x, c[i][k].y, 1),
     down |-> adjacentStack(c, c[i][k].x, c[i][k].y, 3),
     downRight |-> adjacentStack(c, c[i][k].x, c[i][k].y, 7),
     candidates |-> cands,
     at |-> << i, k >>,
     assigned |-> chosenFrames(c, i, k, choice)]

\* the cache after the choice has been applied
pairRock(c, i, k, choice) ==
    IF choice = "none" THEN c ELSE applyChoice(c, i, k, choice)

\* the pairing part of setRockFrame, from the candidates on
chosenRock(c, i, k, cands, choice) ==
    [cache |-> pairRock(c, i, k, choice),
     calls |-> << rockCall(c, i, k, cands, choice) >>]

candidateRock(c, i, k, cands, pick) ==
    chosenRock(c, i, k, cands, chosen(cands, pick))

\* the pairing part of setRockFrame once the item has its own frame
pairedRock(c, i, k, pick) ==
    candidateRock(c, i, k, candidatesOf(c, i, k), pick)

\* setRockFrame(seed) of item k of list i: the cache after it and the
\* record of the call when it reached the pairing part; base stands for
\* random.randint(0, 2)
setRockFrame(c, i, k, seed, base, pick) ==
    IF seed % 4 # 0
    THEN [cache |-> [c EXCEPT ![i][k].rockFrame = base], calls |-> << >>]
    ELSE pairedRock([c EXCEPT ![i][k].rockFrame = base], i, k, pick)

\* the indices of the non-empty lists at or after index i, ascending
RECURSIVE occupiedFrom(_, _)
occupiedFrom(c, i) ==
    LET S == {j \in DOMAIN c : j >= i}
    IN  IF S = {} THEN << >>
        ELSE LET m == CHOOSE j \in S : \A l \in S : j <= l
             IN  << m >> \o occupiedFrom(c, m + 1)

\* the loops over entCache from item k of the list of index todo[1] on; the
\* lists are visited in the order of their indices, an empty list has no
\* item to visit
RECURSIVE rockPassFrom(_, _, _, _, _, _, _)
rockPassFrom(c, calls, todo, k, seed, base, pick) ==
    IF todo = << >> THEN [cache |-> c, calls |-> calls]
    ELSE IF k > Len(c[Head(todo)])
         THEN rockPassFrom(c, calls, Tail(todo), 1, seed, base, pick)
         ELSE IF c[Head(todo)][k].renderRock /\ c[Head(todo)][k].rockFrame = None
              THEN LET r == setRockFrame(c, Head(todo), k, seed + Head(todo),
                                         base, pick)
                   IN  rockPassFrom(r.cache, calls \o r.calls, todo, k + 1,
                                    seed, base, pick)
              ELSE rockPassFrom(c, calls, todo, k + 1, seed, base, pick)

\* the rebuild of entCache and the rock pass for the items E
rockSweep(E, seed, base, pick) ==
    rockPassFrom(rockCache(E), << >>, occupiedFrom(rockCache(E), 0), 1,
                 seed, base, pick)

\* drawBackground with a selected room of the given seed
DrawBackground(seed, base, pick) ==
    /\ probe' = [op |-> "drawBackground", seed |-> seed,
                 calls |-> rockSweep(ents, seed, base, pick).calls]
    /\ UNCHANGED << ents, doors, clipboard, shapeDoors >>

(***************************************************************************)
(* The rock specification: right clicks and drags, without snapping, on a  *)
(* block of three cells away from the walls build a scene, then one redraw  *)
(* of it is observed.                                                      *)
(***************************************************************************)
RockPaint ==
    /\ probe = NoProbe
    /\ \/ \E c \in RockCells : PaintBounded(c[1], c[2], Rock, FALSE, MaxRockEnts)
       \/ /\ ents = EmptyBag
          /\ PaintBounded(2, 1, Pickup, FALSE, MaxRockEnts)

RockMove ==
    /\ probe = NoProbe
    /\ \E e \in BagToSet(ents), c \in RockCells :
          e.kind = Rock /\ Move(e, c[1], c[2], FALSE)

RockDraw ==
    /\ probe = NoProbe
    /\ \E seed \in RockSeeds, base \in 0..2, pick \in 1..3 :
          DrawBackground(seed, base, pick)

NextRock == RockPaint \/ RockMove \/ RockDraw

SpecRock == Init /\ [][NextRock]_vars

(***************************************************************************)
(* Entity.getPitFrame.  adj is the set of spots whose stack holds an item  *)
(* with the pit's image (the names of the true booleans among L, R, U, D,  *)
(* UL, DL, UR, DR).                                                        *)
(***************************************************************************)
Neighbours == {"L", "R", "U", "D", "UL", "DL", "UR", "DR"}

\* the "if <guard>: F = <constant>" statements in source order; on and off
\* are the names the guard requires true and false, extra tells whether
\* the statement stands under "if hasExtraFrames"
PitRules ==
    << [on |-> {"U", "L"}, off |-> {"UL", "R", "D"},
        extra |-> FALSE, F |-> 17],
       [on |-> {"U", "R"}, off |-> {"UR", "L", "D"},
        extra |-> FALSE, F |-> 18],
       [on |-> {"L", "D"}, off |-> {"DL", "U", "R"},
        extra |-> FALSE, F |-> 19],
       [on |-> {"R", "D"}, off |-> {"DR", "L", "U"},
        extra |-> FALSE, F |-> 20],
       [on |-> {"L", "U", "R", "D"}, off |-> {"UL"},
        extra |-> FALSE, F |-> 21],
       [on |-> {"L", "U", "R", "D"}, off |-> {"UR"},
        extra |-> FALSE, F |-> 22],
       [on |-> {"U", "R", "D"}, off |-> {"L", "UR"},
        extra |-> FALSE, F |-> 25],
       [on |-> {"L", "U", "D"}, off |-> {"R", "UL"},
        extra |-> FALSE, F |-> 26],
       [on |-> {"U", "L", "D", "UL"}, off |-> {"DL"},
        extra |-> TRUE, F |-> 35],
       [on |-> {"U", "R", "D", "UR"}, off |-> {"DR"},
        extra |-> TRUE, F |-> 36],
       [on |-> {"L", "U", "R", "D"}, off |-> {"DL", "DR"},
        extra |-> FALSE, F |-> 24],
       [on |-> {"L", "U", "R", "D"}, off |-> {"UR", "UL"},
        extra |-> FALSE, F |-> 23],
       [on |-> {"L", "U", "R", "UL"}, off |-> {"UR", "D"},
        extra |-> FALSE, F |-> 27],
       [on |-> {"L", "U", "R", "UR"}, off |-> {"UL", "D"},
        extra |-> FALSE, F |-> 28],
       [on |-> {"L", "U", "R"}, off |-> {"D", "UR", "UL"},
        extra |-> FALSE, F |-> 29],
       [on |-> {"L", "R", "D", "DL"}, off |-> {"U", "DR"},
        extra |-> FALSE, F |-> 30],
       [on |-> {"L", "R", "D", "DR"}, off |-> {"U", "DL"},
        extra |-> FALSE, F |-> 31],
       [on |-> {"L", "R", "D"}, off |-> {"U", "DL", "DR"},
        extra |-> FALSE, F |-> 32],
       [on |-> {"U", "R", "D"}, off |-> {"L", "UR", "DR"},
        extra |-> TRUE, F |-> 33],
       [on |-> {"U", "L", "D"}, off |-> {"R", "UL", "DL"},
        extra |-> TRUE, F |-> 34],
       [on |-> {"U", "R", "D", "L", "UL", "UR", "DL"}, off |-> {"DR"},
        extra |-> TRUE, F |-> 37],
       [on |-> {"U", "R", "D", "L", "UL", "UR", "DR"}, off |-> {"DL"},
        extra |-> TRUE, F |-> 38],
       [on |-> {"U", "R", "D", "L"}, off |-> {"UL", "UR", "DR", "DL"},
        extra |-> TRUE, F |-> 39],
       [on |-> {"U", "R", "D", "L", "DL", "DR"}, off |-> {"UL", "UR"},
        extra |-> TRUE, F |-> 40],
       [on |-> {"U", "R", "D", "L", "DL", "UR"}, off |-> {"UL", "DR"},
        extra |-> TRUE, F |-> 41],
       [on |-> {"U", "R", "D", "L", "UL", "DR"}, off |-> {"DL", "UR"},
        extra |-> TRUE, F |-> 42],
       [on |-> {"U", "R", "D", "L", "UL"}, off |-> {"DL", "UR", "DR"},
        extra |-> TRUE, F |-> 43],
       [on |-> {"U", "R", "D", "L", "UR"}, off |-> {"UL", "DL", "DR"},
        extra |-> TRUE, F |-> 44],
       [on |-> {"U", "R", "D", "L", "DL"}, off |-> {"UL", "UR", "DR"},
        extra |-> TRUE, F |-> 45],
       [on |-> {"U", "R", "D", "L", "DR"}, off |-> {"UL", "UR", "DL"},
        extra |-> TRUE, F |-> 46],
       [on |-> {"U", "R", "D", "L", "DL", "DR"}, off |-> {"UL", "UR"},
        extra |-> TRUE, F |-> 47],
       [on |-> {"U", "R", "D", "L", "DL", "UL"}, off |-> {"UR", "DR"},
        extra |-> TRUE, F |-> 48],
       [on |-> {"U", "R", "D", "L", "DR", "UR"}, off |-> {"UL", "DL"},
        extra |-> TRUE, F |-> 49] >>

\* the guard of rule r holds
pitRuleHolds(r, adj, hasExtraFrames) ==
    /\ r.on \subseteq adj
    /\ r.off \cap adj = {}
    /\ r.extra => hasExtraFrames

\* F = 0 followed by the four "F = F | bit" statements: the bits are
\* distinct, so the result is their sum
pitBitmask(adj) ==
    (IF "L" \in adj THEN 1 ELSE 0) + (IF "U" \in adj THEN 2 ELSE 0)
    + (IF "R" \in adj THEN 4 ELSE 0) + (IF "D" \in adj THEN 8 ELSE 0)

\* the statements from the i-th on, executed on the current value F
RECURSIVE pitFrameFrom(_, _, _, _)
pitFrameFrom(F, i, adj, hasExtraFrames) ==
    IF i > Len(PitRules) THEN F
    ELSE pitFrameFrom(IF pitRuleHolds(PitRules[i], adj, hasExtraFrames)
                      THEN PitRules[i].F ELSE F,
                      i + 1, adj, hasExtraFrames)

\* faulty: the statements form an elif chain, the first guard that holds
\* decides
getPitFrame_FirstMatch(adj, hasExtraFrames) ==
    LET M == {i \in 1..Len(PitRules) :
                 pitRuleHolds(PitRules[i], adj, hasExtraFrames)}
    IN  IF M = {} THEN pitBitmask(adj)
        ELSE PitRules[CHOOSE i \in M : \A j \in M : i <= j].F

getPitFrame(adj, hasExtraFrames) ==
    pitFrameFrom(pitBitmask(adj), 1, adj, hasExtraFrames)

(***************************************************************************)
(* The specification of the pure functions: a behaviour calls one of them  *)
(* once, on inputs drawn from the sets below, and records the call and its *)
(* result in probe.                                                        *)
(***************************************************************************)
ShapeIds == 1..Len(Shapes)

\* the class-body loop over Shapes.values(), for one shape
ProbeDoorWalls ==
    \E s \in ShapeIds :
        /\ probe = NoProbe
        /\ probe' = [op |-> "DoorWalls", shape |-> s,
                     doorWalls |-> DoorWalls(Shapes[s])]
        /\ UNCHANGED << ents, doors, clipboard, shapeDoors >>

\* gridIndex for a cell of a grid, decoded again as _SpawnIter does
ProbeGridIndex ==
    \E w \in 1..MaxGridWidth, y \in 0..MaxGridRow :
        \E x \in 0..(w - 1) :
            /\ probe = NoProbe
            /\ probe' = [op |-> "gridIndex", x |-> x, y |-> y, w |-> w,
                         idx |-> gridIndex(x, y, w),
                         cell |-> spawnCell(gridIndex(x, y, w), w)]
            /\ UNCHANGED << ents, doors, clipboard, shapeDoors >>

\* the cells of the grid of a room of shape sh
GridCells(sh) == (0..(dims(sh)[1] - 1)) \X (0..(dims(sh)[2] - 1))

\* isInBounds for a cell of the grid, as drawForeground and the room
\* validation call it
ProbeIsInBounds ==
    \E s \in ShapeIds :
        \E c \in GridCells(Shapes[s]) :
            /\ probe = NoProbe
            /\ probe' = [op |-> "isInBounds", shape |-> s, x |-> c[1], y |-> c[2],
                         inBounds |-> isInBounds(Shapes[s], c[1], c[2])]
            /\ UNCHANGED << ents, doors, clipboard, shapeDoors >>

\* snapToBounds for a clamped cell, as tryToPaint and itemChange call it
ProbeSnapToBounds ==
    \E s \in ShapeIds, dist \in 1..MaxSnapDist :
        \E c \in GridCells(Shapes[s]) :
            /\ probe = NoProbe
            /\ probe' = [op |-> "snapToBounds", shape |-> s,
                         x |-> c[1], y |-> c[2], dist |-> dist,
                         result |-> snapToBounds(Shapes[s], c[1], c[2], dist)]
            /\ UNCHANGED << ents, doors, clipboard, shapeDoors >>

\* getPitFrame for one combination of the neighbour booleans
ProbePitFrame ==
    \E adj \in SUBSET Neighbours, h \in BOOLEAN :
        /\ probe = NoProbe
        /\ probe' = [op |-> "getPitFrame", adj |-> adj, hasExtraFrames |-> h,
                     F |-> getPitFrame(adj, h)]
        /\ UNCHANGED << ents, doors, clipboard, shapeDoors >>

(***************************************************************************)
(* Room.reshape and the respawn loop of RoomSelector.changeSize.           *)
(* gridSpawns is a function on the indices of its non-empty lists; a list  *)
(* is named by the cell it was stored for.                                 *)
(***************************************************************************)
MaxStacks == 2
ReshapeCells == { <<3, 3>>, <<5, 4>>, <<20, 3>>, <<14, 8>>, <<7, 12>>, <<20, 12>> }

\* the indices of s in ascending order, as _SpawnIter visits them
RECURSIVE ascending(_)
ascending(S) ==
    IF S = {} THEN << >>
    ELSE LET m == CHOOSE j \in S : \A l \in S : j <= l
         IN  << m >> \o ascending(S \ {m})

\* Room.spawns(): the (stack, x, y) of the non-empty lists with an index
\* below width * height, for the dims the iterator was created with
spawns(gridSpawns, d) ==
    LET todo == ascending({i \in DOMAIN gridSpawns : i < d[1] * d[2]})
    IN  [n \in 1..Len(todo) |->
            [stack |-> gridSpawns[todo[n]],
             x |-> spawnCell(todo[n], d[1])[1],
             y |-> spawnCell(todo[n], d[1])[2]]]

\* the loop of reshape over the iterator's items from the n-th on
RECURSIVE reshapeFrom(_, _, _, _, _)
reshapeFrom(new, it, n, realWidth, gridLen) ==
    IF n > Len(it) THEN new
    ELSE reshapeFrom(
             IF gridIndex(it[n].x, it[n].y, realWidth) < gridLen
             THEN (gridIndex(it[n].x, it[n].y, realWidth) :> it[n].stack)
                  @@ new
             ELSE new,
             it, n + 1, realWidth, gridLen)

\* Room.reshape(shape): the iterator is created for the old shape
reshape(gridSpawns, oldShape, shape) ==
    reshapeFrom(<< >>, spawns(gridSpawns, dims(Shapes[oldShape])), 1,
                dims(Shapes[shape])[1],
                dims(Shapes[shape])[1] * dims(Shapes[shape])[2])

\* the loop "Spawn those entities" of changeSize: the stacks respawned and
\* their cells
respawned(gridSpawns, shape) ==
    LET it == spawns(gridSpawns, dims(Shapes[shape]))
    IN  {it[n] : n \in {k \in 1..Len(it) :
                           ~(it[k].x >= dims(Shapes[shape])[1]
                             \/ it[k].y >= dims(Shapes[shape])[2])}}

\* the stored lists of a room of shape s with stacks on the cells C
storedSpawns(s, C) ==
    [i \in {gridIndex(c[1], c[2], dims(Shapes[s])[1]) : c \in C} |->
        [from |-> spawnCell(i, dims(Shapes[s])[1])]]

\* changeSize from shape s to another shape, the resize confirmed
ProbeReshape ==
    \E s \in ShapeIds, t \in ShapeIds :
        \E C \in SUBSET (ReshapeCells \cap GridCells(Shapes[s])) :
            /\ probe = NoProbe
            /\ s # t
            /\ Cardinality(C) <= MaxStacks
            /\ probe' = [op |-> "reshape", shape |-> s, newShape |-> t,
                         gridSpawns |-> storedSpawns(s, C),
                         result |-> reshape(storedSpawns(s, C), s, t),
                         respawned |-> respawned(reshape(storedSpawns(s, C), s, t), t)]
            /\ UNCHANGED << ents, doors, clipboard, shapeDoors >>

\* a shape of the catalog with its DoorWalls entry
shapeDataOf(s) ==
    [f \in DOMAIN Shapes[s] \cup {"DoorWalls"} |->
        IF f = "DoorWalls" THEN DoorWalls(Shapes[s]) ELSE Shapes[s][f]]

\* inFrontOfDoor for a cell of the grid of a room of shape s
ProbeInFrontOfDoor ==
    \E s \in ShapeIds :
        \E c \in GridCells(Shapes[s]) :
            /\ probe = NoProbe
            /\ probe' = [op |-> "inFrontOfDoor", shape |-> s,
                         x |-> c[1], y |-> c[2],
                         door |-> inFrontOfDoor(shapeDataOf(s), c[1], c[2])]
            /\ UNCHANGED << ents, doors, clipboard, shapeDoors >>

(***************************************************************************)
(* Room.mirrorX and Room.mirrorY.  A room is its shape id, its door list   *)
(* (x, y, exists) and its gridSpawns.  The third loop of the two methods   *)
(* replaces the type of a spawn by the mirrored type its registry entry    *)
(* names; it moves no stack and no door, and a stack is named here by the  *)
(* cell it was stored for.                                                 *)
(***************************************************************************)
\* faulty: the last index is taken to be size
mirrorAcross_NoOffset(v, size) == size - v

\* width - v - 1
mirrorAcross(v, size) == size - v - 1

\* "Flip Spawns": the lists of the cells (x, y) and (width - x - 1, y), or
\* (x, y) and (x, height - y - 1), are exchanged
mirroredIndex(axis, i, d) ==
    IF axis = "X"
    THEN gridIndex(mirrorAcross(spawnCell(i, d[1])[1], d[1]),
                   spawnCell(i, d[1])[2], d[1])
    ELSE gridIndex(spawnCell(i, d[1])[1],
                   mirrorAcross(spawnCell(i, d[1])[2], d[2]), d[1])

flipSpawns(axis, gridSpawns, d) ==
    [i \in {mirroredIndex(axis, j, d) : j \in DOMAIN gridSpawns} |->
        gridSpawns[mirroredIndex(axis, i, d)]]

\* "Flip Doors"
flipDoors(axis, D, d) ==
    [i \in 1..Len(D) |->
        IF axis = "X" THEN << mirrorAcross(D[i][1], d[1]), D[i][2], D[i][3] >>
        ELSE << D[i][1], mirrorAcross(D[i][2], d[2]), D[i][3] >>]

\* shapeData.get("MirrorX") or shapeData.get("MirrorY"), 0 for an absent key
mirrorShape(axis, s) ==
    IF axis = "X" THEN Shapes[s].MirrorX ELSE Shapes[s].MirrorY

\* mirrorX (axis "X") or mirrorY (axis "Y"); "Flip Shape" reshapes with the
\* flipped door list, which replaces the doors the shape setter made
mirror(axis, room) ==
    IF mirrorShape(axis, room.shape) # 0
    THEN [shape |-> mirrorShape(axis, room.shape),
          doors |-> flipDoors(axis, room.doors, dims(Shapes[room.shape])),
          gridSpawns |-> reshape(flipSpawns(axis, room.gridSpawns,
                                            dims(Shapes[room.shape])),
                                 room.shape, mirrorShape(axis, room.shape))]
    ELSE [shape |-> room.shape,
          doors |-> flipDoors(axis, room.doors, dims(Shapes[room.shape])),
          gridSpawns |-> flipSpawns(axis, room.gridSpawns,
                                    dims(Shapes[room.shape]))]

\* a room of shape s with stacks on the cells C; its doors are those of
\* makeNewDoors, the first absent of them removed by the user
roomOf(s, C, absent) ==
    [shape |-> s,
     doors |-> [i \in 1..Len(Shapes[s].Doors) |->
                   << Shapes[s].Doors[i][1], Shapes[s].Doors[i][2], i > absent >>],
     gridSpawns |-> storedSpawns(s, C)]

\* one mirror of a room, and the same mirror once more
ProbeMirror ==
    \E s \in ShapeIds, axis \in { "X", "Y" }, absent \in 0..1 :
        \E C \in SUBSET (ReshapeCells \cap GridCells(Shapes[s])) :
            /\ probe = NoProbe
            /\ Cardinality(C) <= MaxStacks
            /\ probe' = [op |-> "mirror", axis |-> axis,
                         room |-> roomOf(s, C, absent),
                         once |-> mirror(axis, roomOf(s, C, absent)),
                         twice |-> mirror(axis, mirror(axis, roomOf(s, C, absent)))]
            /\ UNCHANGED << ents, doors, clipboard, shapeDoors >>

NextPure ==
    \/ ProbeDoorWalls
    \/ ProbeGridIndex
    \/ ProbeIsInBounds
    \/ ProbeSnapToBounds
    \/ ProbePitFrame
    \/ ProbeReshape
    \/ ProbeInFrontOfDoor
    \/ ProbeMirror

SpecPure == Init /\ [][NextPure]_vars

(***************************************************************************)
(* Pasting what was copied in another room.  MainWindow.clipboard is       *)
(* written by copy and cut only and survives the change of the displayed   *)
(* room; paste creates Entity(x, y, ...) from the stored coordinates,      *)
(* which are cells of the grid of the room copied from.                    *)
(***************************************************************************)
OtherRoomShape == 8
OtherRoomCells ==
    {c \in GridCells(Shapes[OtherRoomShape]) : c[1] \in {7, 20} /\ c[2] \in {4, 12}}
PasteTargets == { <<7, 4>>, <<14, 4>> }

\* itemChange for the setPos of the new item n created for (x, y)
entityClamped(n, E, x, y, snap) ==
    IF clamp(x, 0, roomWidth - 1) # x \/ clamp(y, 0, roomHeight - 1) # y
    THEN updateCoords(n.self, E, n.doors, MoveCell(n.self, x, y, snap)[1],
                      MoveCell(n.self, x, y, snap)[2], -1)
    ELSE [self |-> n.self, others |-> E, doors |-> n.doors]

\* the scene with the new item
entityStored(u) ==
    [raised |-> "none", ents |-> u.others (+) One(u.self), doors |-> u.doors]

\* Entity.__init__ for coordinates x >= 0, y >= 0 that need not be cells of
\* the room.  updateCoords indexes roomRows with y (IndexError past the
\* last row, the item is left without a parent and a scene).  Otherwise
\* updatePosition calls setPos with the item's parent row in the scene, so
\* itemChange clamps the cell to the room and, when the clamped cell is not
\* (x, y), calls updateCoords for it.
EntityInit(E, D, x, y, kind, respawning, snap) ==
    IF y >= roomHeight THEN [raised |-> "IndexError", ents |-> E, doors |-> D]
    ELSE entityStored(entityClamped(NewEntity(E, D, x, y, kind, respawning),
                                    E, x, y, snap))

\* the loop of MainWindow.paste from item i on; an exception ends it
RECURSIVE pasteItems(_, _, _, _, _)
RECURSIVE pasteNext(_, _, _, _)
pasteItems(E, D, clip, i, snap) ==
    IF i > Len(clip) THEN [raised |-> "none", ents |-> E, doors |-> D]
    ELSE pasteNext(EntityInit(E, D, clip[i].x, clip[i].y, clip[i].kind, FALSE, snap),
                   clip, i, snap)

\* the rest of the loop after the construction of item i gave r
pasteNext(r, clip, i, snap) ==
    IF r.raised # "none" THEN r
    ELSE pasteItems(r.ents, r.doors, clip, i + 1, snap)

\* MainWindow.copy while the other room was displayed, with one of its
\* items selected
CopyInOtherRoom ==
    /\ \E c \in OtherRoomCells, k \in Kinds :
          clipboard' = << [x |-> c[1], y |-> c[2], kind |-> k] >>
    /\ UNCHANGED << ents, doors, shapeDoors, probe >>

\* MainWindow.paste in the displayed room; probe keeps the exception that
\* ended the handler
PasteAcrossRooms(snap) ==
    LET r == pasteItems(ents, doors, clipboard, 1, snap)
    IN  /\ clipboard # << >>
        /\ BagCardinality(ents) + Len(clipboard) <= MaxEnts
        /\ ents' = r.ents
        /\ doors' = r.doors
        /\ CountsInWindow(doors')
        /\ probe' = [op |-> "paste", raised |-> r.raised]
        /\ UNCHANGED << clipboard, shapeDoors >>

PastePaint == \E c \in PasteTargets, k \in Kinds : Paint(c[1], c[2], k, FALSE)

DoPasteAcrossRooms == \E s \in BOOLEAN : PasteAcrossRooms(s)

NextPaste ==
    \/ PastePaint
    \/ CopyInOtherRoom
    \/ DoPasteAcrossRooms

SpecPaste == Init /\ [][NextPaste]_vars

(***************************************************************************)
(* The clamping specification: right clicks and drags whose cell lies      *)
(* outside the grid on either side of both axes, or inside it.             *)
(***************************************************************************)
ClampCells == { <<-1, -1>>, <<15, 9>>, <<7, 4>> }

ClampPaint ==
    \E c \in ClampCells, k \in Kinds, s \in BOOLEAN : Paint(c[1], c[2], k, s)

ClampMove ==
    \E e \in BagToSet(ents), c \in ClampCells, s \in BOOLEAN : Move(e, c[1], c[2], s)

NextClamp == ClampPaint \/ ClampMove

SpecClamp == Init /\ [][NextClamp]_vars

(***************************************************************************)
(* Leaving the room and selecting it again.  When the room is left,        *)
(* handleSelectedRoomChanged stores the scene's items in room.gridSpawns   *)
(* (storeEntityList(prev)); when it is selected again the scene is         *)
(* cleared, clearDoors creates the Door items from room.info.doors with    *)
(* blockingCount 0, and every stored placement is created again with       *)
(* respawning=True.  The exists flags are stored in room.info.doors by the *)
(* Door items themselves.                                                  *)
(***************************************************************************)

\* the items of E in z order, the list sorted(spawn, key=zValue) of one
\* cell; items of equal z are recreated alike in either order
RECURSIVE sortedByZ(_)
sortedByZ(E) ==
    IF E = EmptyBag THEN << >>
    ELSE LET e == CHOOSE d \in BagToSet(E) : \A o \in BagToSet(E) : d.z <= o.z
         IN  << e >> \o sortedByZ(E (-) One(e))

\* storeEntityList, then spawns(): the stored placements in the order the
\* respawn loop creates them, from the list of index i on
RECURSIVE storedFrom(_, _)
storedFrom(E, todo) ==
    IF todo = << >> THEN << >>
    ELSE sortedByZ(entCache(E, Head(todo))) \o storedFrom(E, Tail(todo))

storeEntityList(E) ==
    storedFrom(E, ascending({gridIndex(e.x, e.y, roomWidth) : e \in BagToSet(E)}))

\* Room.clearDoors: Door(door) for every door of room.info.doors
clearDoors(D) == [i \in 1..Len(D) |-> [D[i] EXCEPT !.blockingCount = 0]]

\* the loop "Spawn those entities" from item i of the stored list on
RECURSIVE respawnFrom(_, _, _, _)
RECURSIVE respawnNext(_, _, _, _)
respawnFrom(E, D, stored, i) ==
    IF i > Len(stored) THEN [ents |-> E, doors |-> D]
    ELSE respawnNext(E, NewEntity(E, D, stored[i].x, stored[i].y,
                                  stored[i].kind, TRUE),
                     stored, i)

\* the rest of the loop once item i has been created as n
respawnNext(E, n, stored, i) ==
    respawnFrom(E (+) One(n.self), n.doors, stored, i + 1)

\* the scene and doors once the room has been left and selected again
handleSelectedRoomChanged(E, D) ==
    respawnFrom(EmptyBag, clearDoors(D), storeEntityList(E), 1)

Reselect ==
    LET r == handleSelectedRoomChanged(ents, doors)
    IN  /\ probe = NoProbe
        /\ ents' = r.ents
        /\ doors' = r.doors
        /\ probe' = [op |-> "handleSelectedRoomChanged",
                     stored |-> [i \in 1..Len(doors) |-> doors[i].exists],
                     spawns |-> storeEntityList(ents)]
        /\ UNCHANGED << clipboard, shapeDoors >>

(***************************************************************************)
(* The restoration specification: paints, drags and door toggles build a   *)
(* room, then one restoration of it is observed.                           *)
(***************************************************************************)
NextRespawn ==
    \/ (probe = NoProbe /\ DoPaint)
    \/ (probe = NoProbe /\ DoMove)
    \/ (probe = NoProbe /\ DoToggle)
    \/ Reselect

SpecRespawn == Init /\ [][NextRespawn]_vars

(***************************************************************************)
(* The sweep specification: a room is opened whose spawn lists hold rocks  *)
(* on the cells next to the right wall and on the first cell of the row    *)
(* below, then one redraw of it is observed.                               *)
(***************************************************************************)
MaxPerCell == 2
SweepCells == << <<13, 2>>, <<14, 2>>, <<13, 3>>, <<14, 3>>, <<0, 4>> >>
SweepSeeds == { 0, 1 }

\* the spawns of the room as the respawn loop reads them: n[i] rocks on cell
\* i of SweepCells, for the cells from i on
RECURSIVE rockSpawns(_, _)
rockSpawns(n, i) ==
    IF i > Len(SweepCells) THEN << >>
    ELSE [k \in 1..n[i] |->
             [x |-> SweepCells[i][1], y |-> SweepCells[i][2], kind |-> Rock]]
         \o rockSpawns(n, i + 1)

\* the scene once the room with these spawns has been selected
openedRoom(n) ==
    respawnFrom(EmptyBag,
                clearDoors(makeNewDoors(shapeData, catalogDoors(shapeData))),
                rockSpawns(n, 1), 1)

InitSweep ==
    /\ \E n \in [1..Len(SweepCells) -> 0..MaxPerCell] :
          /\ ents = openedRoom(n).ents
          /\ doors = openedRoom(n).doors
    /\ shapeDoors = catalogDoors(shapeData)
    /\ clipboard = << >>
    /\ probe = NoProbe

\* what is kept of a pass with result r
sweepProbe(seed, r) ==
    [op |-> "sweep", seed |-> seed, calls |-> r.calls, cache |-> r.cache]

\* drawBackground with a selected room of the given seed: the calls of
\* setRockFrame and the frames the items have when the pass ends
SweepDraw ==
    /\ probe = NoProbe
    /\ \E seed \in SweepSeeds, base \in 0..2, pick \in 1..3 :
          probe' = sweepProbe(seed, rockSweep(ents, seed, base, pick))
    /\ UNCHANGED << ents, doors, clipboard, shapeDoors >>

SpecSweep == InitSweep /\ [][SweepDraw]_vars

(***************************************************************************)
(* The repaint specification: a room with tiled items is opened, then the  *)
(* view is repainted again and again.  The scene does not change, so the   *)
(* rebuilt entCache holds the same items with the rockFrame their last     *)
(* paint left; probe keeps these lists and the seed of the room.           *)
(***************************************************************************)
TiledKinds == << Rock, RockPit >>
TiledCells == << <<1, 1>>, <<2, 1>>, <<1, 2>> >>

\* the spawns of the room: an item of the k[i]-th kind on cell i of
\* TiledCells, no item for 0
RECURSIVE tiledSpawns(_, _)
tiledSpawns(k, i) ==
    IF i > Len(TiledCells) THEN << >>
    ELSE (IF k[i] = 0 THEN << >>
          ELSE << [x |-> TiledCells[i][1], y |-> TiledCells[i][2],
                   kind |-> TiledKinds[k[i]]] >>)
         \o tiledSpawns(k, i + 1)

tiledRoom(k) ==
    respawnFrom(EmptyBag,
                clearDoors(makeNewDoors(shapeData, catalogDoors(shapeData))),
                tiledSpawns(k, 1), 1)

InitRepaint ==
    /\ \E k \in [1..Len(TiledCells) -> 0..Len(TiledKinds)] :
          /\ ents = tiledRoom(k).ents
          /\ doors = tiledRoom(k).doors
    /\ shapeDoors = catalogDoors(shapeData)
    /\ clipboard = << >>
    /\ \E seed \in RockSeeds :
          probe = [op |-> "opened", seed |-> seed, frames |-> rockCache(ents),
                   skipped |-> {}]

\* Entity.paint, lines 1840-1852: the rock frame is read and cleared in the
\* branch that is taken when the item is not pit-tiled
paintItem(it) ==
    IF it.renderPit THEN it
    ELSE IF it.renderRock /\ it.rockFrame # None
         THEN [it EXCEPT !.rockFrame = None]
         ELSE it

\* the paint of every item of the scene
paintItems(c) == [j \in DOMAIN c |-> [n \in 1..Len(c[j]) |-> paintItem(c[j][n])]]

\* the items the loop of drawBackground does not resolve because they have
\* a frame, as << list index, position in the list >>
skippedBy(c) ==
    { u \in UNION { {j} \X (1..Len(c[j])) : j \in DOMAIN c } :
         c[u[1]][u[2]].renderRock /\ c[u[1]][u[2]].rockFrame # None }

\* one paintEvent of the view: drawBackground, then the paint of the items
Repaint ==
    /\ probe.op \in { "opened", "paintEvent" }
    /\ \E base \in 0..2, pick \in 1..3 :
          probe' = [op |-> "paintEvent", seed |-> probe.seed,
                    frames |-> paintItems(
                        rockPassFrom(probe.frames, << >>,
                                     occupiedFrom(probe.frames, 0), 1,
                                     probe.seed, base, pick).cache),
                    skipped |-> skippedBy(probe.frames)]
    /\ UNCHANGED << ents, doors, clipboard, shapeDoors >>

SpecRepaint == InitRepaint /\ [][Repaint]_vars

TypeOK ==
    /\ IsABag(ents)
    /\ \A e \in BagToSet(ents) : e.z >= 0 /\ e.stackDepth >= 1
    /\ Len(clipboard) <= MaxClip

(***************************************************************************)
(* Vocabulary of the properties.                                           *)
(***************************************************************************)
Items == BagToSet(ents)

Range(s) == { s[i] : i \in 1..Len(s) }

OccupiedCells(E) == { << e.x, e.y >> : e \in BagToSet(E) }

\* the depths of cell (x, y) are exactly 0 .. N-1, each once
Dense(E, x, y) == DepthsAt(E, x, y) = SetToBag(0 .. (CountAt(E, x, y) - 1))

\* what remains of E once item e is taken out and the gap it leaves in its
\* cell is closed
GapClosed(E, e) ==
    LET lower(o) == IF o.x = e.x /\ o.y = e.y /\ o.z > e.z
                    THEN [o EXCEPT !.z = @ - 1] ELSE o
    IN  MapBag(E (-) One(e), lower)

\* (x, y) is the blocking cell of door d
IsBlockingCell(d, x, y) ==
    inFrontOfDoor(shapeData, x, y) = << doors[d].x, doors[d].y >>

\* the door-blocking placements on the blocking cell of door d
BlockersOf(E, d) ==
    LET S == {e \in BagToSet(E) : e.kind.blocksDoor /\ IsBlockingCell(d, e.x, e.y)}
    IN  SumOver(E, S)

DoorIds == 1..Len(doors)

(***************************************************************************)
(* C1: in every state reached by inserts, moves and removes, the depths of *)
(* every occupied cell are exactly 0 .. N-1 (unique and dense).            *)
(* Fails: Entity.__init__ never assigns a z value, so two placements       *)
(* painted into one cell both have depth 0.                                *)
(***************************************************************************)
C1_DepthsDense ==
    \A c \in OccupiedCells(ents) : Dense(ents, c[1], c[2])

(***************************************************************************)
(* C2: an insert without an explicit depth adds one placement whose depth  *)
(* is the number of placements already in its cell and changes no other    *)
(* placement.  Fails: the new placement keeps depth 0.                     *)
(***************************************************************************)
C2_InsertTopmost ==
    [][\A c \in ReqCells, s \in BOOLEAN :
          (Paint(c[1], c[2], Pickup, s) /\ ents' # ents)
          => \E n \in BagToSet(ents') :
                /\ ents' = ents (+) One(n)
                /\ n.z = CountAt(ents, n.x, n.y)]_vars

(***************************************************************************)
(* C3: removing a placement of depth d lowers by one the depth of every    *)
(* other placement of its cell deeper than d and changes nothing else.     *)
(* Fails: Entity.remove leaves every z value as it is.                     *)
(***************************************************************************)
C3_RemoveClosesGap ==
    [][\A e \in Items : Remove(e) => ents' = GapClosed(ents, e)]_vars

(***************************************************************************)
(* C4: a move to a different cell, between two cells with dense depths,    *)
(* leaves both cells dense: the moved placement gets the former count of   *)
(* the destination cell as its depth, the source placements above its old  *)
(* depth go down by one, and no other depth changes.  Stated of the result *)
(* of the drag handler in every reachable state, for every placement and   *)
(* every requested cell.                                                   *)
(***************************************************************************)
C4_MoveKeepsDense ==
    \A e \in Items, c \in ReqCells, s \in BOOLEAN :
        LET to == MoveCell(e, c[1], c[2], s)
            r == MoveResult(ents, doors, e, c[1], c[2], s)
        IN  ( /\ to # << e.x, e.y >>
              /\ Dense(ents, e.x, e.y)
              /\ Dense(ents, to[1], to[2]) )
            => /\ Dense(r.ents, e.x, e.y)
               /\ Dense(r.ents, to[1], to[2])
               /\ r.self.x = to[1] /\ r.self.y = to[2]
               /\ r.self.kind = e.kind
               /\ r.self.z = CountAt(ents, to[1], to[2])
               /\ r.ents (-) One(r.self) = GapClosed(ents, e)

\* a placement was moved on top of another one: its cell is dense with
\* depths 0 and 1
C4_Witness ==
    \E e \in Items :
        /\ e.z = 1
        /\ CountAt(ents, e.x, e.y) = 2
        /\ Dense(ents, e.x, e.y)

(***************************************************************************)
(* C5: painting a placement (default depth, or depth 0 for a grid entity)  *)
(* and removing it at once gives back the scene as it was: every other     *)
(* placement has the depth it had before.                                  *)
(***************************************************************************)
C5_InsertRemoveRestores ==
    \A c \in ReqCells, k \in Kinds, s \in BOOLEAN :
        LET p == PaintCell(c[1], c[2], s)
            r == PaintResult(ents, doors, p[1], p[2], k)
        IN  ~PaintRejected(ents, p[1], p[2], k)
            => \E n \in BagToSet(r.ents) :
                  /\ n.x = p[1] /\ n.y = p[2] /\ n.kind = k
                  /\ CopiesIn(n, r.ents) = CopiesIn(n, ents) + 1
                  /\ RemoveResult(r.ents, r.doors, n).ents = ents

\* a grid entity has been painted into a cell that held another placement,
\* and a further paint into that cell is possible
C5_Witness ==
    \E a \in Items, b \in Items :
        /\ a.x = b.x /\ a.y = b.y
        /\ a.kind = Rock /\ b.kind = Pickup
        /\ ~PaintRejected(ents, a.x, a.y, Pickup)

(***************************************************************************)
(* C6: a paint into a cell that holds MAX_STACK_DEPTH placements creates   *)
(* nothing.  Fails: the test reads the cached stackDepth of the items in   *)
(* the cell, which only a hover or a drag of that item refreshes.          *)
(***************************************************************************)
C6_FullCellRejects ==
    [][\A c \in StackCells :
          LET p == PaintCell(c[1], c[2], FALSE)
          IN  ( /\ PaintBounded(c[1], c[2], Pickup, FALSE, MaxStackEnts)
                /\ CountAt(ents, p[1], p[2]) = MAX_STACK_DEPTH )
              => UNCHANGED << ents, doors >>]_vars

(***************************************************************************)
(* C7: after any sequence of inserts no cell holds two grid-exclusive      *)
(* placements (type id > 999).  Fails: paste creates its entities without  *)
(* the test tryToPaint makes.                                              *)
(***************************************************************************)
C7_OneGridExclusivePerCell ==
    \A a \in Items :
        a.kind.Type > 999
        => /\ ents[a] = 1
           /\ \A b \in Items :
                 (b # a /\ b.x = a.x /\ b.y = a.y) => ~(b.kind.Type > 999)

(***************************************************************************)
(* C8: the door scenario, step by step.  Painting a door-blocking item on  *)
(* the blocking cell of an open door with count 0 gives count 1 and closes *)
(* the door; removing a blocking item from a closed door with count 1      *)
(* gives count 0 and leaves it closed; a double click on a closed door     *)
(* opens it and keeps the count.  Each step is stated of the result of its *)
(* handler in every reachable state that meets the step's precondition.    *)
(***************************************************************************)
C8_DoorScenario ==
    \A d \in DoorIds :
        /\ \A c \in ReqCells, k \in Kinds, s \in BOOLEAN :
              LET p == PaintCell(c[1], c[2], s)
                  r == PaintResult(ents, doors, p[1], p[2], k)
              IN  ( /\ doors[d].exists /\ doors[d].blockingCount = 0
                    /\ k.blocksDoor /\ IsBlockingCell(d, p[1], p[2])
                    /\ ~PaintRejected(ents, p[1], p[2], k) )
                  => (r.doors[d].blockingCount = 1 /\ ~r.doors[d].exists)
        /\ \A e \in Items :
              LET r == RemoveResult(ents, doors, e)
              IN  ( /\ ~doors[d].exists /\ doors[d].blockingCount = 1
                    /\ e.kind.blocksDoor /\ IsBlockingCell(d, e.x, e.y) )
                  => (r.doors[d].blockingCount = 0 /\ ~r.doors[d].exists)
        /\ ~doors[d].exists
              => LET r == ToggleResult(doors, d)
                 IN  r[d].exists /\ r[d].blockingCount = doors[d].blockingCount

\* a door closed by the one blocking item on its blocking cell
C8_Witness ==
    \E d \in DoorIds :
        /\ ~doors[d].exists
        /\ doors[d].blockingCount = 1
        /\ BlockersOf(ents, d) = 1

(***************************************************************************)
(* C9: a step that opens a closed door is a double click on that door; no  *)
(* insert, move, remove or replacement does it.                            *)
(***************************************************************************)
C9_OnlyToggleOpens ==
    [][\A d \in DoorIds :
          (~doors[d].exists /\ doors'[d].exists)
          => (doors' = ToggleResult(doors, d) /\ ents' = ents)]_vars

\* a door that stays closed although its blocking cell has been vacated
C9_Witness ==
    \E d \in DoorIds :
        /\ ~doors[d].exists
        /\ doors[d].blockingCount = 0
        /\ BlockersOf(ents, d) = 0
        /\ ents # EmptyBag

(***************************************************************************)
(* C10: the blockingCount of every door is the number of door-blocking     *)
(* placements on its blocking cell, hence never negative.  Fails: setData  *)
(* changes blocksDoor of a placed item without touching the count.         *)
(***************************************************************************)
C10_CountMatchesBlockers ==
    \A d \in DoorIds : doors[d].blockingCount = BlockersOf(ents, d)

(***************************************************************************)
(* C11: a double click on a door flips that door's exists whatever its     *)
(* blockingCount is and changes nothing else: the door's blockingCount and *)
(* position, every other door, the placements, and the catalog's door      *)
(* flags, which stay open.                                                 *)
(***************************************************************************)
C11_ToggleFlipsOnly ==
    [][\A d \in DoorIds :
          Toggle(d)
          => /\ doors'[d] = [doors[d] EXCEPT !.exists = ~doors[d].exists]
             /\ \A o \in DoorIds \ {d} : doors'[o] = doors[o]
             /\ shapeDoors' = shapeDoors
             /\ \A i \in DOMAIN shapeDoors' : shapeDoors'[i]
             /\ ents' = ents]_vars

\* a door open although a blocking item stands in front of it: it was
\* closed by the item or by hand, and a double click has flipped it
C11_Witness ==
    \E d \in DoorIds :
        /\ doors[d].exists
        /\ doors[d].blockingCount = 1
        /\ BlockersOf(ents, d) = 1

(***************************************************************************)
(* C12: for every shape id 1..12 the catalog's DoorWalls list holds        *)
(* exactly one (door, wall, axis) entry per door slot, and the door lies   *)
(* on that wall: its coordinate along the axis is within the wall's span   *)
(* and its other coordinate is the wall's level.                           *)
(***************************************************************************)
C12_OneWallPerDoor ==
    probe.op = "DoorWalls"
    => LET sh == Shapes[probe.shape]
           dw == probe.doorWalls
       IN  /\ \A i \in 1..Len(sh.Doors) :
                 Cardinality({j \in 1..Len(dw) : dw[j][1] = sh.Doors[i]}) = 1
           /\ \A j \in 1..Len(dw) :
                 LET door == dw[j][1]
                     wall == dw[j][2]
                     along == IF dw[j][3] = "X" THEN door[1] ELSE door[2]
                     cross == IF dw[j][3] = "X" THEN door[2] ELSE door[1]
                 IN  /\ \E i \in 1..Len(sh.Doors) : sh.Doors[i] = door
                     /\ dw[j][3] \in {"X", "Y"}
                     /\ wall \in Range(IF dw[j][3] = "X" THEN sh.WallsX
                                       ELSE sh.WallsY)
                     /\ along >= wall[1] /\ along <= wall[2]
                     /\ cross = wall[3]

\* the list of an L shape has been built: eight doors, on walls of both axes
C12_Witness ==
    /\ probe.op = "DoorWalls"
    /\ Len(Shapes[probe.shape].Doors) = 8
    /\ \E j \in 1..Len(probe.doorWalls) : probe.doorWalls[j][3] = "X"
    /\ \E j \in 1..Len(probe.doorWalls) : probe.doorWalls[j][3] = "Y"
    /\ Shapes[probe.shape].BaseShape # 0

(***************************************************************************)
(* C13: gridIndex round-trips.  For every width w >= 1 and every cell with *)
(* 0 <= x < w and y >= 0, idx = gridIndex(x, y, w) is y*w + x and the      *)
(* spawn iterator decodes idx back to (x, y).                              *)
(***************************************************************************)
C13_GridIndexRoundTrip ==
    probe.op = "gridIndex"
    => /\ probe.idx = probe.y * probe.w + probe.x
       /\ << probe.idx % probe.w, probe.idx \div probe.w >> = << probe.x, probe.y >>
       /\ probe.cell = << probe.x, probe.y >>

\* the last cell of a row that is not the first, in a grid wider than one
\* cell, has been encoded and decoded
C13_Witness ==
    /\ probe.op = "gridIndex"
    /\ probe.w > 1 /\ probe.x = probe.w - 1 /\ probe.y > 0
    /\ probe.cell = << probe.x, probe.y >>

(***************************************************************************)
(* C14: isInBounds is true exactly for the cells inside the room outline.  *)
(* For the rectangular shapes 1, 4, 6, 8 these are the cells of the grid   *)
(* off its 1-cell border; for the L shapes 9, 10, 11, 12 the cells of the  *)
(* 28x16 grid off its border and outside the removed quadrant (x <= 13 and *)
(* y <= 7 for 9, x >= 14 and y <= 7 for 10, x <= 13 and y >= 8 for 11,     *)
(* x >= 14 and y >= 8 for 12).                                             *)
(***************************************************************************)
OffBorder(x, y, W, H) == 1 <= x /\ x <= W - 2 /\ 1 <= y /\ y <= H - 2

RemovedQuadrant(s, x, y) ==
    \/ s = 9 /\ x <= 13 /\ y <= 7
    \/ s = 10 /\ x >= 14 /\ y <= 7
    \/ s = 11 /\ x <= 13 /\ y >= 8
    \/ s = 12 /\ x >= 14 /\ y >= 8

C14_InBoundsIsOutline ==
    probe.op = "isInBounds"
    => LET s == probe.shape
           W == dims(Shapes[s])[1]
           H == dims(Shapes[s])[2]
       IN  /\ s \in {1, 4, 6, 8}
              => (probe.inBounds <=> OffBorder(probe.x, probe.y, W, H))
           /\ s \in {9, 10, 11, 12}
              => /\ W = 28 /\ H = 16
                 /\ probe.inBounds <=> ( /\ OffBorder(probe.x, probe.y, 28, 16)
                                         /\ ~RemovedQuadrant(s, probe.x, probe.y) )

\* a cell on the inner corner of an L shape's removed quadrant has been
\* tested and found out of bounds
C14_Witness ==
    /\ probe.op = "isInBounds"
    /\ probe.shape = 9 /\ probe.x = 13 /\ probe.y = 7
    /\ ~probe.inBounds

(***************************************************************************)
(* C15: snapToBounds tests every wall segment against the input point:     *)
(* the returned y is level + dir*dist of the last X-segment the input      *)
(* point violates, or y if there is none, and the returned x is level +    *)
(* dir*dist of the last Y-segment the input point violates, or x.          *)
(* Fails: each test reads the point as the earlier segments left it.       *)
(***************************************************************************)
\* the index of the last wall of ws the point (a, c) violates, 0 if none
LastViolated(ws, a, c) ==
    LET V == {i \in 1..Len(ws) : ~axisBounds(a, c, ws[i])}
    IN  IF V = {} THEN 0 ELSE CHOOSE i \in V : \A j \in V : j <= i

\* the coordinate wall i of ws snaps to, v when i is 0
SnappedTo(ws, i, v, dist) == IF i = 0 THEN v ELSE ws[i][3] + ws[i][4] * dist

C15_SnapIndependent ==
    probe.op = "snapToBounds"
    => LET sh == Shapes[probe.shape]
           ix == LastViolated(sh.WallsX, probe.x, probe.y)
           iy == LastViolated(sh.WallsY, probe.y, probe.x)
       IN  probe.result = << SnappedTo(sh.WallsY, iy, probe.x, probe.dist),
                             SnappedTo(sh.WallsX, ix, probe.y, probe.dist) >>

(***************************************************************************)
(* C15 as amended: the segments are tested one after another in declared   *)
(* order, each against the point as the segments before it left it.  There *)
(* is a run ys of the y coordinate through the X-segments and a run xs of  *)
(* the x coordinate through the Y-segments: ys starts at the input y, each *)
(* X-segment violated by (x, ys so far) sets it to level + dir*dist; xs    *)
(* starts at the input x, each Y-segment violated by (final ys, xs so far) *)
(* sets it to level + dir*dist; the result is (final xs, final ys).        *)
(***************************************************************************)
\* the runs of one coordinate through the walls ws: a is the fixed
\* coordinate, c0 the start of the moving one
SnapRuns(ws, a, c0, dist) ==
    LET vals == {c0} \cup {ws[i][3] + ws[i][4] * dist : i \in 1..Len(ws)}
    IN  {r \in [0..Len(ws) -> vals] :
            /\ r[0] = c0
            /\ \A i \in 1..Len(ws) :
                  r[i] = IF axisBounds(a, r[i - 1], ws[i]) THEN r[i - 1]
                         ELSE ws[i][3] + ws[i][4] * dist}

C15_SnapInOrder ==
    probe.op = "snapToBounds"
    => LET sh == Shapes[probe.shape]
       IN  \E ys \in SnapRuns(sh.WallsX, probe.x, probe.y, probe.dist) :
              \E xs \in SnapRuns(sh.WallsY, ys[Len(sh.WallsX)], probe.x, probe.dist) :
                 probe.result = << xs[Len(sh.WallsY)], ys[Len(sh.WallsX)] >>

\* a corner cell of the horizontal closet has been snapped: the X pass
\* moves y into the span of a Y wall the input point is not in
C15_Witness ==
    /\ probe.op = "snapToBounds"
    /\ probe.shape = 2 /\ probe.x = 0 /\ probe.y = 0 /\ probe.dist = 1
    /\ probe.result = << 1, 3 >>

(***************************************************************************)
(* C16: for every placement configuration and every grid position,         *)
(* including the first and last column and row, the cached neighbour query *)
(* (cache freshly rebuilt) returns the same eight neighbour sets as the    *)
(* scan of the three adjacent rows.  Fails: the cached query computes a    *)
(* grid index from x-1 or x+1 without testing the column, so in the first  *)
(* column it reads the last cell of the row above, and in the last column  *)
(* the first cell of the row below.                                        *)
(***************************************************************************)
C16_CachedEqualsScan ==
    \A c \in GridCells(shapeData) :
        getAdjacentEnts(ents, c[1], c[2], TRUE)
            = getAdjacentEnts(ents, c[1], c[2], FALSE)

(***************************************************************************)
(* C17: for all 2^8 combinations of the neighbour booleans and both values *)
(* of hasExtraFrames, the pit frame is the constant of the last rule in    *)
(* declared order whose guard holds, and the bitmask L*1 + U*2 + R*4 + D*8 *)
(* when no guard holds.  L alone gives 1; L, U, R, D, UL, UR without DL    *)
(* and DR gives 24.                                                        *)
(***************************************************************************)
C17_LastRuleWins ==
    probe.op = "getPitFrame"
    => LET adj == probe.adj
           M == {i \in 1..Len(PitRules) :
                    /\ PitRules[i].on \subseteq adj
                    /\ PitRules[i].off \cap adj = {}
                    /\ (PitRules[i].extra => probe.hasExtraFrames)}
           B(n) == IF n \in adj THEN 1 ELSE 0
       IN  /\ M = {} => probe.F = B("L") * 1 + B("U") * 2 + B("R") * 4 + B("D") * 8
           /\ M # {} => \E i \in M : /\ \A j \in M : j <= i
                                     /\ probe.F = PitRules[i].F
           /\ adj = {"L"} => probe.F = 1
           /\ adj = {"L", "U", "R", "D", "UL", "UR"} => probe.F = 24

\* a combination for which the guards of several rules with different
\* constants hold: all four sides without any corner, extended frames off
C17_Witness ==
    /\ probe.op = "getPitFrame"
    /\ probe.adj = {"L", "U", "R", "D"}
    /\ ~probe.hasExtraFrames
    /\ probe.F = 23

(***************************************************************************)
(* C18: in every call of setRockFrame that reaches the pairing, the        *)
(* candidates contain "2x1" iff the right stack holds an item with the     *)
(* rock's image and no frame assigned in this pass, "1x2" iff the down     *)
(* stack holds such an item, and "2x2" iff both are candidates and the     *)
(* down-right stack holds such an item.                                    *)
(***************************************************************************)
HoldsFreePartner(stack, rockImg) ==
    \E k \in 1..Len(stack) : stack[k].img = rockImg /\ stack[k].rockFrame = None

C18_CandidatesIffPartners ==
    probe.op = "drawBackground"
    => \A n \in 1..Len(probe.calls) :
          LET call == probe.calls[n]
              cand == Range(call.candidates)
          IN  /\ "2x1" \in cand <=> HoldsFreePartner(call.right, call.rockImg)
              /\ "1x2" \in cand <=> HoldsFreePartner(call.down, call.rockImg)
              /\ "2x2" \in cand <=>
                    /\ "2x1" \in cand
                    /\ "1x2" \in cand
                    /\ HoldsFreePartner(call.downRight, call.rockImg)

(***************************************************************************)
(* C19: a paste of an item whose coordinates lie outside the room's grid   *)
(* is reported as an error and leaves the scene's items, and with them     *)
(* every cell's depths, unchanged; the item is never stored in a different *)
(* cell.                                                                   *)
(***************************************************************************)
OutsideGrid(item) == << item.x, item.y >> \notin GridCells(shapeData)

C19_OutOfGridPasteReported ==
    [][ (DoPasteAcrossRooms /\ \E i \in 1..Len(clipboard) : OutsideGrid(clipboard[i]))
        => (probe'.raised # "none" /\ ents' = ents) ]_vars

(***************************************************************************)
(* C20: a paint or drag request whose cell is out of range is not rejected *)
(* for that: it is carried out on a cell of the grid (the clamped cell,    *)
(* snapped when snapping is on), so every placement's coordinates satisfy  *)
(* 0 <= x <= width-1 and 0 <= y <= height-1 after any sequence of paint    *)
(* and move requests.                                                      *)
(***************************************************************************)
\* the value of 0..hi nearest to v
Nearest(v, hi) == IF v < 0 THEN 0 ELSE IF v > hi THEN hi ELSE v

InRange(E) ==
    \A e \in BagToSet(E) :
        /\ 0 <= e.x /\ e.x <= roomWidth - 1
        /\ 0 <= e.y /\ e.y <= roomHeight - 1

C20_RequestsClamped ==
    /\ InRange(ents)
    /\ \A c \in ClampCells, s \in BOOLEAN :
          /\ \A k \in Kinds :
                LET p == PaintCell(c[1], c[2], s)
                    r == PaintResult(ents, doors, p[1], p[2], k)
                IN  /\ ~s => p = << Nearest(c[1], roomWidth - 1),
                                    Nearest(c[2], roomHeight - 1) >>
                    /\ ~PaintRejected(ents, p[1], p[2], k)
                       => /\ InRange(r.ents)
                          /\ BagCardinality(r.ents) = BagCardinality(ents) + 1
                          /\ CountAt(r.ents, p[1], p[2]) = CountAt(ents, p[1], p[2]) + 1
          /\ \A e \in Items :
                LET r == MoveResult(ents, doors, e, c[1], c[2], s)
                IN  /\ InRange(r.ents)
                    /\ BagCardinality(r.ents) = BagCardinality(ents)
                    /\ ~s => /\ r.self.x = Nearest(c[1], roomWidth - 1)
                             /\ r.self.y = Nearest(c[2], roomHeight - 1)

\* requests past the last column and row and before the first have been
\* carried out on the corner cells
C20_Witness ==
    /\ \E e \in Items : e.x = roomWidth - 1 /\ e.y = roomHeight - 1
    /\ \E e \in Items : e.x = 0 /\ e.y = 0

(***************************************************************************)
(* C21: a reshape keeps every stack whose cell lies inside the new grid at *)
(* the same cell and drops every stack outside it; no stack changes cell   *)
(* and no kept stack is overwritten.                                       *)
(***************************************************************************)
C21_ReshapeKeepsCells ==
    probe.op = "reshape"
    => LET w == dims(Shapes[probe.newShape])[1]
           h == dims(Shapes[probe.newShape])[2]
           old == { probe.gridSpawns[i] : i \in DOMAIN probe.gridSpawns }
           kept == { s \in old : s.from[1] < w /\ s.from[2] < h }
       IN  /\ \A s \in kept :
                /\ gridIndex(s.from[1], s.from[2], w) \in DOMAIN probe.result
                /\ probe.result[gridIndex(s.from[1], s.from[2], w)] = s
           /\ \A i \in DOMAIN probe.result :
                /\ probe.result[i] \in kept
                /\ probe.result[i].from = spawnCell(i, w)
           /\ \A r \in probe.respawned :
                r.stack \in kept /\ r.stack.from = << r.x, r.y >>

(***************************************************************************)
(* C22: the paint of a grid entity, which places it at the explicit depth  *)
(* 0, increments the depth of every placement already in the cell (all     *)
(* have a depth >= 0), so afterwards the new item is the only placement of *)
(* the cell at depth 0.                                                    *)
(***************************************************************************)
DepthUp(n) == n + 1

C22_ExplicitDepthShifts ==
    \A c \in ReqCells, s \in BOOLEAN :
        LET p == PaintCell(c[1], c[2], s)
            r == PaintResult(ents, doors, p[1], p[2], Rock)
        IN  ~PaintRejected(ents, p[1], p[2], Rock)
            => /\ DepthsAt(r.ents, p[1], p[2])
                    = MapBag(DepthsAt(ents, p[1], p[2]), DepthUp) (+) One(0)
               /\ CopiesIn(0, DepthsAt(r.ents, p[1], p[2])) = 1

(***************************************************************************)
(* C23: once the stored placements of a room have been respawned, every    *)
(* door's exists is as it was stored and every door's blockingCount is the *)
(* number of door-blocking placements respawned on its blocking cell.      *)
(***************************************************************************)
C23_RespawnCountsOnly ==
    probe.op = "handleSelectedRoomChanged"
    => \A d \in DoorIds :
          /\ doors[d].exists = probe.stored[d]
          /\ doors[d].blockingCount
                = Cardinality({i \in 1..Len(probe.spawns) :
                                  /\ probe.spawns[i].kind.blocksDoor
                                  /\ IsBlockingCell(d, probe.spawns[i].x,
                                                    probe.spawns[i].y)})

\* a door stored open is respawned open with a blocker on its blocking cell
C23_Witness ==
    /\ probe.op = "handleSelectedRoomChanged"
    /\ \E d \in DoorIds : doors[d].exists /\ doors[d].blockingCount = 1

(***************************************************************************)
(* C24: for every shape and every door d of it, inFrontOfDoor(x, y) is d   *)
(* exactly when (x, y) is the cell one step from d along the inward normal *)
(* of its wall, (d.x, d.y + dir) for an X wall and (d.x + dir, d.y) for a  *)
(* Y wall; it is no door for every other cell; distinct doors have         *)
(* distinct blocking cells.                                                *)
(***************************************************************************)
\* the cells one step inwards from door d of shape sh, one per wall that
\* holds the door
StepInwards(sh, d) ==
    { << d[1], d[2] + sh.WallsX[i][4] >> :
        i \in {j \in 1..Len(sh.WallsX) :
                  /\ sh.WallsX[j][1] <= d[1] /\ d[1] <= sh.WallsX[j][2]
                  /\ d[2] = sh.WallsX[j][3]} }
    \cup
    { << d[1] + sh.WallsY[i][4], d[2] >> :
        i \in {j \in 1..Len(sh.WallsY) :
                  /\ sh.WallsY[j][1] <= d[2] /\ d[2] <= sh.WallsY[j][2]
                  /\ d[1] = sh.WallsY[j][3]} }

C24_InFrontIsStepInwards ==
    probe.op = "inFrontOfDoor"
    => LET sh == Shapes[probe.shape]
           c == << probe.x, probe.y >>
           D == Range(sh.Doors)
       IN  /\ \A d \in D : probe.door = d <=> c \in StepInwards(sh, d)
           /\ (probe.door = NoDoor) <=> (\A d \in D : c \notin StepInwards(sh, d))
           /\ \A d \in D, e \in D :
                 d # e => StepInwards(sh, d) \cap StepInwards(sh, e) = {}
           /\ \A d \in D : Cardinality(StepInwards(sh, d)) = 1

\* the cell below the top door of an L-shaped room
C24_Witness ==
    /\ probe.op = "inFrontOfDoor"
    /\ probe.shape = 9
    /\ probe.door # NoDoor
    /\ probe.door[2] + 1 = probe.y

(***************************************************************************)
(* C25: within one rock pass every placement is in at most one group: the  *)
(* placements two calls of setRockFrame assign frames to are disjoint (a   *)
(* placement that received a partner frame 4, 6, 8, 9 or 10 is not the     *)
(* partner of another call and is not resolved itself), and every frame a  *)
(* call assigned is still the placement's frame when the pass ends.        *)
(***************************************************************************)
\* the placements a call assigned frames to
framedBy(call) == { << t[1], t[2] >> : t \in call.assigned }

C25_OneGroupPerSweep ==
    probe.op = "sweep"
    => /\ \A m \in 1..Len(probe.calls), n \in 1..Len(probe.calls) :
             m # n => framedBy(probe.calls[m]) \cap framedBy(probe.calls[n]) = {}
       /\ \A m \in 1..Len(probe.calls) :
             \A t \in probe.calls[m].assigned :
                probe.cache[t[1]][t[2]].rockFrame = t[3]

\* two rocks stacked on one cell were both resolved, the first one took the
\* only rock of the cell to its right as its partner
C25_Witness ==
    /\ probe.op = "sweep"
    /\ \E m \in 1..Len(probe.calls), n \in 1..Len(probe.calls) :
          /\ m < n
          /\ probe.calls[m].at[1] = probe.calls[n].at[1]
          /\ \E t \in probe.calls[m].assigned : t[3] = 4
          /\ Len(probe.calls[n].right) = 1
          /\ probe.calls[n].right[1].rockFrame = 4

(***************************************************************************)
(* C30: when a rock pass ends the groups are well formed: a placement with *)
(* frame 3 or 7 on (x, y) has a placement with frame 4 or 8 on (x+1, y), a *)
(* placement with frame 5 or 7 has one with frame 6 or 9 on (x, y+1), a    *)
(* placement with frame 7 has one with frame 10 on (x+1, y+1), and a       *)
(* placement with a partner frame has its origin on the matching cell.     *)
(***************************************************************************)
\* the items of the lists of cache c
CacheItems(c) == UNION { Range(c[j]) : j \in DOMAIN c }

\* some item of c on (x, y) has frame f
FramedAt(c, x, y, f) ==
    \E o \in CacheItems(c) : o.x = x /\ o.y = y /\ o.rockFrame = f

C30_GroupsWellFormed ==
    probe.op = "sweep"
    => \A e \in CacheItems(probe.cache) :
          /\ e.rockFrame = 3 => FramedAt(probe.cache, e.x + 1, e.y, 4)
          /\ e.rockFrame = 5 => FramedAt(probe.cache, e.x, e.y + 1, 6)
          /\ e.rockFrame = 7 => /\ FramedAt(probe.cache, e.x + 1, e.y, 8)
                                /\ FramedAt(probe.cache, e.x, e.y + 1, 9)
                                /\ FramedAt(probe.cache, e.x + 1, e.y + 1, 10)
          /\ e.rockFrame = 4 => FramedAt(probe.cache, e.x - 1, e.y, 3)
          /\ e.rockFrame = 6 => FramedAt(probe.cache, e.x, e.y - 1, 5)
          /\ e.rockFrame = 8 => FramedAt(probe.cache, e.x - 1, e.y, 7)
          /\ e.rockFrame = 9 => FramedAt(probe.cache, e.x, e.y - 1, 7)
          /\ e.rockFrame = 10 => FramedAt(probe.cache, e.x - 1, e.y - 1, 7)

(***************************************************************************)
(* C26: the paint that follows a rock pass clears the frame the pass       *)
(* assigned, so when a paintEvent ends no rock-tiled item has a frame, and *)
(* the rock pass of a paintEvent skips no item because of a frame an       *)
(* earlier pass assigned.                                                  *)
(***************************************************************************)
C26_FramesSingleUse ==
    probe.op = "paintEvent"
    => /\ \A e \in CacheItems(probe.frames) : e.renderRock => e.rockFrame = None
       /\ probe.skipped = {}

(***************************************************************************)
(* C27: for every shape and every cell of its grid (the grid of the base   *)
(* shape for a closet), snapToBounds(x, y) with the default dist returns a *)
(* cell for which isInBounds is true, and returns (x, y) itself when       *)
(* isInBounds(x, y) is true.                                               *)
(***************************************************************************)
C27_SnapLandsInBounds ==
    (probe.op = "snapToBounds" /\ probe.dist = 1)
    => /\ isInBounds(Shapes[probe.shape], probe.result[1], probe.result[2])
       /\ isInBounds(Shapes[probe.shape], probe.x, probe.y)
             => probe.result = << probe.x, probe.y >>

(***************************************************************************)
(* C28: a drag whose clamped and snapped destination is the cell the item  *)
(* is in changes no depth in that cell and no door's blockingCount or      *)
(* exists.                                                                 *)
(***************************************************************************)
C28_DragToOwnCellIsNoOp ==
    \A e \in BagToSet(ents), c \in ReqCells, s \in BOOLEAN :
        MoveCell(e, c[1], c[2], s) = << e.x, e.y >>
        => /\ DepthsAt(MoveResult(ents, doors, e, c[1], c[2], s).ents, e.x, e.y)
                = DepthsAt(ents, e.x, e.y)
           /\ MoveResult(ents, doors, e, c[1], c[2], s).doors = doors

(***************************************************************************)
(* C29: after mirrorX or mirrorY of a room of any shape, the set of the    *)
(* room's door positions is the set of the door slots of the shape the     *)
(* room then has (the MirrorX or MirrorY shape when the catalog names one, *)
(* the same shape otherwise); the same mirror applied twice gives back the *)
(* shape id and the door positions.                                        *)
(***************************************************************************)
\* the positions of a door list, in its order
DoorPositions(D) == [i \in 1..Len(D) |-> << D[i][1], D[i][2] >>]

C29_MirrorKeepsDoorSlots ==
    probe.op = "mirror"
    => /\ probe.once.shape
            = (IF mirrorShape(probe.axis, probe.room.shape) # 0
               THEN mirrorShape(probe.axis, probe.room.shape)
               ELSE probe.room.shape)
       /\ Range(DoorPositions(probe.once.doors))
            = Range(Shapes[probe.once.shape].Doors)
       /\ probe.twice.shape = probe.room.shape
       /\ DoorPositions(probe.twice.doors) = DoorPositions(probe.room.doors)

\* an L-shaped room was mirrored into the shape its catalog entry names
C29_Witness ==
    /\ probe.op = "mirror"
    /\ probe.axis = "X"
    /\ probe.room.shape = 9
    /\ probe.once.shape = 10
    /\ probe.twice.shape = 9
    /\ probe.once.doors # probe.room.doors
====
